---- MODULE Spec2Model ----
(***************************************************************************)
(* A model of QFATFileSystem (FAT12 / FAT16 / FAT32 read-write library).   *)
(*                                                                         *)
(* The volume is modelled at the granularity the code works at:            *)
(*   - the FAT is an array of entries per FAT copy (0 = free, a cluster    *)
(*     number = link, the variant's end-of-chain mark);                    *)
(*   - the disk is an array of 32-byte slots: the fixed root region of     *)
(*     FAT12/FAT16 followed by the data clusters, EntriesPerCluster slots  *)
(*     each; a slot is a short directory entry, a long-file-name entry,    *)
(*     a deleted entry, or 32 zero bytes; file data is written one slot    *)
(*     (32 bytes) at a time, so a file's size is counted in slots;         *)
(*   - characters are their ASCII codes; names are sequences of codes.     *)
(***************************************************************************)
EXTENDS Integers, Sequences, FiniteSets, TLC

-----------------------------------------------------------------------------
(* Bounds of the model                                                     *)

NumFATs == 2
RootEntries == 4
EntriesPerCluster == 4
MaxCluster == 5
MaxOps == 3

-----------------------------------------------------------------------------
(* Constants of the on-disk format (internal_constants.h)                  *)

ENTRY_END_OF_DIRECTORY == 0
ENTRY_DELETED == 229
ENTRY_CURRENT_DIRECTORY == 46
ENTRY_ATTRIBUTE_READ_ONLY == 1
ENTRY_ATTRIBUTE_VOLUME_LABEL == 8
ENTRY_ATTRIBUTE_DIRECTORY == 16
ENTRY_ATTRIBUTE_ARCHIVE == 32
ENTRY_ATTRIBUTE_LONG_FILE_NAME == 15
ENTRY_LFN_SEQUENCE_LAST_MASK == 64
ENTRY_LFN_CHARS == 13

Variants == {"FAT12", "FAT16", "FAT32"}

-----------------------------------------------------------------------------
(* Characters and strings (QString operations the code uses)               *)

Min(a, b) == IF a < b THEN a ELSE b
Max(a, b) == IF a > b THEN a ELSE b

Upper(c) == IF c \in 97..122 THEN c - 32 ELSE c
Lower(c) == IF c \in 65..90 THEN c + 32 ELSE c
ToUpper(s) == [i \in 1..Len(s) |-> Upper(s[i])]
ToLower(s) == [i \in 1..Len(s) |-> Lower(s[i])]

Left(s, n) == SubSeq(s, 1, Min(Max(n, 0), Len(s)))
\* Mid(s, i): the tail of s from the 1-based position i
Mid(s, i) == SubSeq(s, i, Len(s))
Contains(s, c) == \E i \in 1..Len(s) : s[i] = c
\* 1-based position of the first / last c in s, 0 when there is none
\* (QString::indexOf / lastIndexOf return the 0-based position or -1)
IndexOf(s, c) == IF Contains(s, c) THEN CHOOSE i \in 1..Len(s) : s[i] = c /\ \A j \in 1..(i-1) : s[j] # c ELSE 0
LastIndexOf(s, c) == IF Contains(s, c) THEN CHOOSE i \in 1..Len(s) : s[i] = c /\ \A j \in (i+1)..Len(s) : s[j] # c ELSE 0

IsSpace(c) == c = 32 \/ c \in 9..13
RECURSIVE TrimLeft(_)
TrimLeft(s) == IF s # <<>> /\ IsSpace(Head(s)) THEN TrimLeft(Tail(s)) ELSE s
RECURSIVE TrimRight(_)
TrimRight(s) == IF s # <<>> /\ IsSpace(s[Len(s)]) THEN TrimRight(SubSeq(s, 1, Len(s) - 1)) ELSE s
Trimmed(s) == TrimRight(TrimLeft(s))
RECURSIVE TrimTrailingSpaces(_)
TrimTrailingSpaces(s) == IF s # <<>> /\ s[Len(s)] = 32 THEN TrimTrailingSpaces(SubSeq(s, 1, Len(s) - 1)) ELSE s

\* QString::arg of a non-negative int: its decimal digits
RECURSIVE DecStr(_)
DecStr(n) == IF n < 10 THEN <<48 + n>> ELSE DecStr(n \div 10) \o <<48 + (n % 10)>>

\* the characters kept by remove(QRegularExpression("[^A-Z0-9_^$~!#%&\\-{}@'`()]"))
IsShortNameChar(c) ==
    \/ c \in 65..90
    \/ c \in 48..57
    \/ c \in {95, 94, 36, 126, 33, 35, 37, 38, 45, 123, 125, 64, 39, 96, 40, 41}
RemoveInvalid(s) == SelectSeq(s, IsShortNameChar)

-----------------------------------------------------------------------------
(* Directory slots                                                         *)

\* 32 zero bytes
EndSlot == [k |-> "end", name |-> <<>>, attr |-> 0, clus |-> 0, size |-> 0,
            seq |-> 0, sum |-> 0, part |-> <<>>]
\* a slot whose first byte is ENTRY_DELETED; no code path reads its other bytes
DelSlot == [k |-> "del", name |-> <<>>, attr |-> 0, clus |-> 0, size |-> 0,
            seq |-> 0, sum |-> 0, part |-> <<>>]
\* a short directory entry: 11 name bytes, attribute byte, first cluster, size
SdeSlot(name11, attr, clus, size) ==
           [k |-> "sde", name |-> name11, attr |-> attr, clus |-> clus, size |-> size,
            seq |-> 0, sum |-> 0, part |-> <<>>]
\* a slot whose attribute byte has one of the low four bits set: byte 0 is the
\* sequence byte, byte 0x0D the checksum, and 13 UTF-16 units the name part
LfnSlot(seq, attr, sum, part) ==
           [k |-> "lfn", name |-> <<>>, attr |-> attr, clus |-> 0, size |-> 0,
            seq |-> seq, sum |-> sum, part |-> part]
\* 32 bytes of file data, all equal to the byte b (b's low four bits not all 0):
\* on disk it is indistinguishable from a slot with attribute byte b
DataBlock(b) == LfnSlot(b, b, b, [i \in 1..ENTRY_LFN_CHARS |-> b + 256 * b])

SlotFirstByte(s) ==
    CASE s.k = "end" -> ENTRY_END_OF_DIRECTORY
      [] s.k = "del" -> ENTRY_DELETED
      [] s.k = "sde" -> s.name[1]
      [] OTHER -> s.seq

-----------------------------------------------------------------------------
(* Volume geometry.  A volume state is a record                            *)
(*   [v    : the variant,                                                  *)
(*    fat  : FAT copy -> (cluster -> FAT entry),                           *)
(*    disk : sequence of slots (root region, then clusters 2..MaxCluster), *)
(*    map  : m_longToShortNameMap, lower-cased long name -> short name]    *)

Clusters == 2..MaxCluster
TotalClusters == MaxCluster + 1
ClusterSize == EntriesPerCluster

\* number of slots of the fixed root region (FAT32 has none)
readRootEntryCount(v) == IF v = "FAT32" THEN 0 ELSE RootEntries
\* FAT32: BPB root directory cluster
readRootDirCluster == 2
\* slots before the root region / before the first slot of a cluster (0-based)
calculateRootDirOffset == 0
calculateClusterOffset(v, cluster) ==
    IF v = "FAT12" /\ cluster < 2 THEN 0
    ELSE readRootEntryCount(v) + (cluster - 2) * EntriesPerCluster
DiskSlots(v) == readRootEntryCount(v) + (MaxCluster - 1) * EntriesPerCluster

\* the slots [offset+1 .. offset+count] of the device (a read stops at its end)
ReadSlots(disk, offset, count) ==
    SubSeq(disk, offset + 1, Min(offset + count, Len(disk)))
\* a 32-byte write at the 0-based slot position offset
WriteSlot(disk, offset, slot) ==
    IF offset + 1 \in 1..Len(disk) THEN [disk EXCEPT ![offset + 1] = slot] ELSE disk

-----------------------------------------------------------------------------
(* The file allocation table                                               *)

EndOfChain(v) ==
    CASE v = "FAT12" -> 4095
      [] v = "FAT16" -> 65535
      [] OTHER -> 268435455

\* the entry as read from the first FAT copy; FAT32 readers mask off the high
\* 4 bits of the 32-bit slot
FatEntry(v, fat, cluster) ==
    IF cluster \notin Clusters THEN 0
    ELSE IF v = "FAT32" THEN fat[1][cluster] % 268435456
    ELSE fat[1][cluster]

readNextCluster(v, fat, cluster) ==
    LET value == FatEntry(v, fat, cluster) IN
    CASE v = "FAT12" -> IF value >= 4088 \/ value = 4087 THEN 65535 ELSE value
      [] v = "FAT16" -> IF value >= 65528 THEN 0 ELSE value
      [] OTHER -> IF value >= 268435448 THEN 0 ELSE value

\* FAT12 writes the entry of the first copy only; FAT16 and FAT32 every copy.
\* FAT32 masks the value to 28 bits and stores it as the whole 32-bit slot.
writeNextCluster(v, fat, cluster, value) ==
    IF cluster \notin Clusters THEN fat
    ELSE IF v = "FAT12" THEN [fat EXCEPT ![1][cluster] = value % 4096]
    ELSE IF v = "FAT32"
         THEN [i \in DOMAIN fat |-> [fat[i] EXCEPT ![cluster] = value % 268435456]]
    ELSE [i \in DOMAIN fat |-> [fat[i] EXCEPT ![cluster] = value]]

ChainLimit(v) ==
    CASE v = "FAT12" -> 4088
      [] v = "FAT16" -> 65528
      [] OTHER -> 268435448

RECURSIVE getClusterChain_loop(_, _, _, _)
getClusterChain_loop(v, fat, currentCluster, chain) ==
    IF currentCluster >= 2 /\ currentCluster < ChainLimit(v) /\ Len(chain) <= MaxCluster
    THEN LET next == readNextCluster(v, fat, currentCluster) IN
         IF next = 0 THEN Append(chain, currentCluster)
         ELSE getClusterChain_loop(v, fat, next, Append(chain, currentCluster))
    ELSE chain
getClusterChain(v, fat, startCluster) ==
    IF startCluster < 2 THEN <<>> ELSE getClusterChain_loop(v, fat, startCluster, <<>>)

findFreeCluster(v, fat) ==
    LET free == {c \in Clusters : c < TotalClusters /\
                    (IF v = "FAT12" THEN readNextCluster(v, fat, c) ELSE FatEntry(v, fat, c)) = 0}
    IN IF free = {} THEN 0 ELSE CHOOSE c \in free : \A d \in free : c <= d

RECURSIVE freeClusters(_, _, _, _)
freeClusters(v, fat, chain, i) ==
    IF i > Len(chain) THEN fat
    ELSE freeClusters(v, writeNextCluster(v, fat, chain[i], 0), chain, i + 1)
freeClusterChain(v, fat, startCluster) ==
    freeClusters(v, fat, getClusterChain(v, fat, startCluster), 1)

RECURSIVE linkClusters(_, _, _, _)
linkClusters(v, fat, chain, i) ==
    IF i >= Len(chain) THEN fat
    ELSE linkClusters(v, writeNextCluster(v, fat, chain[i], chain[i + 1]), chain, i + 1)

\* FAT16 / FAT32: every cluster is first marked end-of-chain, the links are
\* written after the last allocation; result [fat, chain]
RECURSIVE allocateClusterChain16(_, _, _, _)
allocateClusterChain16(v, fat, numClusters, chain) ==
    IF Len(chain) = numClusters
    THEN [fat |-> linkClusters(v, fat, chain, 1), chain |-> chain]
    ELSE LET freeCluster == findFreeCluster(v, fat) IN
         IF freeCluster = 0
         THEN [fat |-> IF chain # <<>> THEN freeClusterChain(v, fat, chain[1]) ELSE fat,
               chain |-> <<>>]
         ELSE allocateClusterChain16(v, writeNextCluster(v, fat, freeCluster, EndOfChain(v)),
                                     numClusters, Append(chain, freeCluster))

\* FAT12: each new cluster is linked to the previous one at once
RECURSIVE allocateClusterChain12(_, _, _, _)
allocateClusterChain12(v, fat, numClusters, chain) ==
    IF Len(chain) = numClusters THEN [fat |-> fat, chain |-> chain]
    ELSE LET cluster == findFreeCluster(v, fat) IN
         IF cluster = 0
         THEN [fat |-> freeClusterChain(v, fat, IF chain = <<>> THEN 0 ELSE chain[1]),
               chain |-> <<>>]
         ELSE LET f1 == IF chain # <<>> THEN writeNextCluster(v, fat, chain[Len(chain)], cluster)
                        ELSE fat
              IN allocateClusterChain12(v, writeNextCluster(v, f1, cluster, 4095),
                                        numClusters, Append(chain, cluster))

allocateClusterChain(v, fat, numClusters) ==
    IF v = "FAT12" THEN allocateClusterChain12(v, fat, numClusters, <<>>)
    ELSE allocateClusterChain16(v, fat, numClusters, <<>>)

-----------------------------------------------------------------------------
(* Names: long name -> short name, short name <-> 11 name bytes, checksum  *)

\* QFATFileInfo (timestamps left out); a default-constructed one has an empty name
FileInfo(name, longName, attributes, size, cluster) ==
    [name |-> name, longName |-> longName, attributes |-> attributes,
     isDirectory |-> (attributes \div ENTRY_ATTRIBUTE_DIRECTORY) % 2 = 1,
     size |-> size, cluster |-> cluster]
NoFileInfo ==
    [name |-> <<>>, longName |-> <<>>, attributes |-> 0, isDirectory |-> FALSE,
     size |-> 0, cluster |-> 0]

Dot == 46
Tilde == 126
Space == 32

WithExt(base, ext) == IF ext # <<>> THEN base \o <<Dot>> \o ext ELSE base

RECURSIVE generateShortName_loop(_, _, _, _, _)
generateShortName_loop(baseName, ext, existingEntries, testName, tailNum) ==
    IF tailNum < 1000 /\ \E i \in 1..Len(existingEntries) :
                            ToUpper(existingEntries[i].name) = ToUpper(testName)
    THEN LET tail == <<Tilde>> \o DecStr(tailNum)
         IN generateShortName_loop(baseName, ext, existingEntries,
                WithExt(Left(baseName, 8 - Len(tail)) \o tail, ext), tailNum + 1)
    ELSE testName

generateShortName(longName, existingEntries) ==
    LET upper == ToUpper(longName)
        dotPos == LastIndexOf(upper, Dot)
        base0 == RemoveInvalid(IF dotPos > 1 THEN Left(upper, dotPos - 1) ELSE upper)
        ext0 == RemoveInvalid(IF dotPos > 1 THEN Mid(upper, dotPos + 1) ELSE <<>>)
        baseName == IF Len(base0) > 8 THEN Left(base0, 6) ELSE base0
        ext == IF Len(ext0) > 3 THEN Left(ext0, 3) ELSE ext0
    IN generateShortName_loop(baseName, ext, existingEntries, WithExt(baseName, ext), 1)

LeftJustified(s, n) == s \o [i \in 1..(n - Len(s)) |-> Space]

\* the 11 name bytes createDirectoryEntry writes for fileInfo.name
EncodeName11(name) ==
    LET upper == ToUpper(name)
        dotPos == IndexOf(upper, Dot)
        baseName == LeftJustified(IF dotPos >= 1 THEN Left(upper, dotPos - 1) ELSE upper, 8)
        ext == LeftJustified(IF dotPos >= 1 THEN Mid(upper, dotPos + 1) ELSE <<>>, 3)
    IN Left(baseName, 8) \o Left(ext, 3)

\* the name read back from the 11 name bytes: trailing spaces of base and
\* extension dropped, joined by a dot when there is an extension
DecodeName11(name11) ==
    LET base == TrimTrailingSpaces(SubSeq(name11, 1, 8))
        ext == TrimTrailingSpaces(SubSeq(name11, 9, 11))
    IN IF ext # <<>> THEN (IF base # <<>> THEN base \o <<Dot>> ELSE <<>>) \o ext ELSE base

RECURSIVE checksumFold(_, _, _)
checksumFold(name11, i, checksum) ==
    IF i > Len(name11) THEN checksum
    ELSE checksumFold(name11, i + 1,
             ((checksum % 2) * 128 + (checksum \div 2) + name11[i]) % 256)

\* the sum over the 11 bytes of an on-disk short name
ChecksumOfName11(name11) == checksumFold(name11, 1, 0)

calculateLFNChecksum(shortName) ==
    LET upper == ToUpper(shortName)
        dotPos == IndexOf(upper, Dot)
        base == IF dotPos >= 1 THEN Left(upper, dotPos - 1) ELSE upper
        ext == IF dotPos >= 1 THEN Mid(upper, dotPos + 1) ELSE <<>>
        name11 == LeftJustified(Left(base, 8), 8) \o LeftJustified(Left(ext, 3), 3)
    IN checksumFold(name11, 1, 0)

calculateLFNEntriesNeeded(longName) == (Len(longName) + 12) \div 13

\* the slot writeLFNEntry builds: 13 UTF-16 units from position (sequence-1)*13,
\* padded with 0xFFFF
writeLFNEntry(longName, sequence, checksum, isLast) ==
    LET startPos == (sequence - 1) * 13
    IN LfnSlot(IF isLast THEN sequence + ENTRY_LFN_SEQUENCE_LAST_MASK ELSE sequence,
               ENTRY_ATTRIBUTE_LONG_FILE_NAME, checksum,
               [i \in 1..ENTRY_LFN_CHARS |->
                   IF startPos + i <= Len(longName) THEN longName[startPos + i] ELSE 65535])

RECURSIVE readLongFileName_loop(_, _)
readLongFileName_loop(chars, i) ==
    IF i > Len(chars) \/ chars[i] = 0 \/ chars[i] = 65535 THEN <<>>
    ELSE <<chars[i]>> \o readLongFileName_loop(chars, i + 1)
\* the 13 UTF-16 units at bytes 1..10, 14..25, 28..31 of a slot.  Of a short
\* entry these are its name bytes 1..10 taken in pairs, then its time stamps
\* (zero), which end the name
SlotChars(entry) ==
    IF entry.k = "lfn" THEN entry.part
    ELSE IF entry.k = "sde"
         THEN [i \in 1..5 |-> entry.name[2 * i] + 256 * entry.name[2 * i + 1]]
    ELSE <<>>
readLongFileName(entry) == readLongFileName_loop(SlotChars(entry), 1)

-----------------------------------------------------------------------------
(* Reading directories                                                     *)

isLongFileNameEntry(entry) == entry.attr % 16 # 0
isDeletedEntry(entry) == SlotFirstByte(entry) = ENTRY_DELETED
isValidEntry(entry) ==
    /\ SlotFirstByte(entry) # ENTRY_END_OF_DIRECTORY
    /\ SlotFirstByte(entry) # ENTRY_DELETED
    /\ SlotFirstByte(entry) # ENTRY_CURRENT_DIRECTORY
    /\ (entry.attr \div ENTRY_ATTRIBUTE_VOLUME_LABEL) % 2 = 0

parseDirectoryEntry(entry, longName) ==
    LET name8_3 == Trimmed(DecodeName11(entry.name))
    IN FileInfo(name8_3, IF longName = <<>> THEN name8_3 ELSE Trimmed(longName),
                entry.attr, entry.size, entry.clus)

RECURSIVE readDirectoryEntries_loop(_, _, _, _)
readDirectoryEntries_loop(slots, i, files, currentLongName) ==
    IF i > Len(slots) THEN files
    ELSE LET entry == slots[i] IN
         IF SlotFirstByte(entry) = ENTRY_END_OF_DIRECTORY THEN files
         ELSE IF isDeletedEntry(entry)
              THEN readDirectoryEntries_loop(slots, i + 1, files, <<>>)
         ELSE IF isLongFileNameEntry(entry)
              THEN LET part == readLongFileName(entry)
                       isLastInSequence == (SlotFirstByte(entry) \div ENTRY_LFN_SEQUENCE_LAST_MASK) % 2 = 1
                   IN readDirectoryEntries_loop(slots, i + 1, files,
                          IF isLastInSequence THEN part ELSE part \o currentLongName)
         ELSE IF isValidEntry(entry)
              THEN readDirectoryEntries_loop(slots, i + 1,
                       Append(files, parseDirectoryEntry(entry, currentLongName)), <<>>)
         ELSE readDirectoryEntries_loop(slots, i + 1, files, currentLongName)

readDirectoryEntries(disk, offset, maxSize) ==
    readDirectoryEntries_loop(ReadSlots(disk, offset, maxSize), 1, <<>>, <<>>)

listRootDirectoryFixed(S) ==
    readDirectoryEntries(S.disk, calculateRootDirOffset, readRootEntryCount(S.v))

\* FAT16 / FAT32: cluster by cluster, until an entry with an empty name and
\* size 0, the end of the chain, or the directory size limit
RECURSIVE listDirectory16_loop(_, _, _, _)
\* one cluster's entries read: stop at the end marker entry or at the last
\* cluster, else go on with the next cluster
listDirectory16_entries(S, files, visited, entries, endAt, next) ==
    IF endAt # {}
    THEN files \o SubSeq(entries, 1, (CHOOSE i \in endAt : \A j \in endAt : i <= j) - 1)
    ELSE IF next = 0 THEN files \o entries
    ELSE listDirectory16_loop(S, next, files \o entries, visited + 1)
listDirectory16_cluster(S, currentCluster, files, visited, entries) ==
    listDirectory16_entries(S, files, visited, entries,
        {i \in 1..Len(entries) : entries[i].name = <<>> /\ entries[i].size = 0},
        readNextCluster(S.v, S.fat, currentCluster))
listDirectory16_loop(S, currentCluster, files, visited) ==
    IF currentCluster >= 2 /\ currentCluster < ChainLimit(S.v) /\ visited <= MaxCluster
    THEN listDirectory16_cluster(S, currentCluster, files, visited,
             readDirectoryEntries(S.disk, calculateClusterOffset(S.v, currentCluster),
                                  ClusterSize))
    ELSE files

RECURSIVE listDirectory12_loop(_, _, _)
listDirectory12_loop(S, clusters, i) ==
    IF i > Len(clusters) THEN <<>>
    ELSE readDirectoryEntries(S.disk, calculateClusterOffset(S.v, clusters[i]), ClusterSize)
         \o listDirectory12_loop(S, clusters, i + 1)

\* listDirectory(cluster)
listDirectory(S, cluster) ==
    IF cluster < 2 THEN <<>>
    ELSE IF S.v = "FAT12"
         THEN listDirectory12_loop(S, getClusterChain(S.v, S.fat, cluster), 1)
         ELSE listDirectory16_loop(S, cluster, <<>>, 0)

listRootDirectory(S) ==
    IF S.v = "FAT32" THEN listDirectory(S, readRootDirCluster) ELSE listRootDirectoryFixed(S)

\* the first of the entries at the positions hits, an empty info when none
FirstWhere(entries, hits) ==
    IF hits = {} THEN NoFileInfo ELSE entries[CHOOSE i \in hits : \A j \in hits : i <= j]

isGarbageLFN(longName, shortName) ==
    IF ToUpper(longName) = ToUpper(shortName) THEN FALSE
    ELSE LET nonAsciiCount == Cardinality({i \in 1..Len(longName) :
                                              longName[i] > 127 \/ longName[i] < 32})
         IN Len(longName) > 0 /\ nonAsciiCount * 2 > Len(longName)

findInDirectory(entries, name) ==
    LET upperName == ToUpper(name)
        Exact(entry) == ToUpper(entry.name) = upperName \/ ToUpper(entry.longName) = upperName
        dotPos == LastIndexOf(upperName, Dot)
        originalBase == IF dotPos > 1 THEN Left(upperName, dotPos - 1) ELSE upperName
        base0 == RemoveInvalid(originalBase)
        ext0 == RemoveInvalid(IF dotPos > 1 THEN Mid(upperName, dotPos + 1) ELSE <<>>)
        needsTruncation == Len(base0) > 8 \/ Len(ext0) > 3 \/ base0 # originalBase
        searchBase == IF Len(base0) > 6 THEN Left(base0, 6) ELSE base0
        searchExt == IF Len(ext0) > 3 THEN Left(ext0, 3) ELSE ext0
        Fallback(entry) ==
            LET entryShortName == ToUpper(entry.name)
                hasValidLFN == ToUpper(entry.longName) # ToUpper(entry.name)
                               /\ ~isGarbageLFN(entry.longName, entry.name)
                entryDot == LastIndexOf(entryShortName, Dot)
                entryBase == IF entryDot > 1 THEN Left(entryShortName, entryDot - 1)
                             ELSE entryShortName
                entryExt == IF entryDot > 1 THEN Mid(entryShortName, entryDot + 1) ELSE <<>>
            IN /\ ~hasValidLFN
               /\ entryExt = searchExt
               /\ entryBase = searchBase
               /\ ~Contains(entryBase, Tilde)
               /\ ~needsTruncation
    IN IF \E i \in 1..Len(entries) : Exact(entries[i])
       THEN FirstWhere(entries, {i \in 1..Len(entries) : Exact(entries[i])})
       ELSE FirstWhere(entries, {i \in 1..Len(entries) : Fallback(entries[i])})

\* findFileByPath over the path's components (splitPath already applied);
\* result [info, error]
RECURSIVE findFileByPath_loop(_, _, _, _)
\* variant: a non-terminal component that is a file reported as FileNotFound
findFileByPath_found_fileError(S, parts, i, found) ==
    IF found.name = <<>>
    THEN [info |-> NoFileInfo,
          error |-> IF i < Len(parts) THEN "DirectoryNotFound" ELSE "FileNotFound"]
    ELSE IF i = Len(parts) THEN [info |-> found, error |-> "None"]
    ELSE IF ~found.isDirectory THEN [info |-> NoFileInfo, error |-> "FileNotFound"]
    ELSE findFileByPath_loop(S, parts, i + 1, listDirectory(S, found.cluster))
findFileByPath_found(S, parts, i, found) ==
    IF found.name = <<>>
    THEN [info |-> NoFileInfo,
          error |-> IF i < Len(parts) THEN "DirectoryNotFound" ELSE "FileNotFound"]
    ELSE IF i = Len(parts) THEN [info |-> found, error |-> "None"]
    ELSE IF ~found.isDirectory THEN [info |-> NoFileInfo, error |-> "DirectoryNotFound"]
    ELSE findFileByPath_loop(S, parts, i + 1, listDirectory(S, found.cluster))
\* FAT16 / FAT32: a name not found directly is looked up through the map
findFileByPath_direct(S, parts, i, currentDir, direct) ==
    findFileByPath_found(S, parts, i,
        IF direct.name = <<>> /\ S.v # "FAT12" /\ ToLower(parts[i]) \in DOMAIN S.map
        THEN findInDirectory(currentDir, S.map[ToLower(parts[i])])
        ELSE direct)
findFileByPath_loop(S, parts, i, currentDir) ==
    findFileByPath_direct(S, parts, i, currentDir, findInDirectory(currentDir, parts[i]))

findFileByPath(S, parts) ==
    IF parts = <<>> THEN [info |-> NoFileInfo, error |-> "InvalidPath"]
    ELSE findFileByPath_loop(S, parts, 1, listRootDirectory(S))

\* m_lastError after a findFileByPath call
NoteError(S, error) == IF error # "None" THEN [S EXCEPT !.le = error] ELSE S

\* listDirectory(path)
listDirectoryPath_found(S, r) ==
    IF r.error # "None" \/ ~r.info.isDirectory THEN <<>> ELSE listDirectory(S, r.info.cluster)
listDirectoryPath(S, parts) ==
    IF parts = <<>> /\ S.v # "FAT12" THEN listRootDirectory(S)
    ELSE listDirectoryPath_found(S, findFileByPath(S, parts))

exists_found(r) == r.error = "None" /\ r.info.name # <<>>
exists(S, parts) ==
    IF parts = <<>> THEN TRUE ELSE exists_found(findFileByPath(S, parts))

RECURSIVE readClusterChain_loop(_, _, _, _)
readClusterChain_loop(S, clusters, i, remaining) ==
    IF i > Len(clusters) \/ remaining <= 0 THEN <<>>
    ELSE ReadSlots(S.disk, calculateClusterOffset(S.v, clusters[i]), Min(ClusterSize, remaining))
         \o readClusterChain_loop(S, clusters, i + 1, remaining - ClusterSize)

readClusterChain(S, startCluster, fileSize) ==
    IF startCluster < 2 \/ fileSize = 0 THEN <<>>
    ELSE readClusterChain_loop(S, getClusterChain(S.v, S.fat, startCluster), 1, fileSize)

\* readFile: result [data, error]
readFile_found(S, r) ==
    IF r.error # "None" THEN [data |-> <<>>, error |-> r.error]
    ELSE IF r.info.isDirectory THEN [data |-> <<>>, error |-> "InvalidPath"]
    ELSE [data |-> readClusterChain(S, r.info.cluster, r.info.size), error |-> "None"]
readFile(S, parts) == readFile_found(S, findFileByPath(S, parts))

-----------------------------------------------------------------------------
(* Writing directory entries                                               *)

SlotAt(disk, offset) == IF offset + 1 \in 1..Len(disk) THEN disk[offset + 1] ELSE EndSlot

\* createDirectoryEntry: the short entry built from fileInfo, written at the
\* 0-based slot position dirOffset.  FAT32 first marks the slot before it as
\* deleted when that slot's attribute byte is exactly LONG_FILE_NAME.
createDirectoryEntry(v, disk, dirOffset, fileInfo) ==
    LET entry == SdeSlot(EncodeName11(fileInfo.name), fileInfo.attributes,
                         IF v = "FAT32" THEN fileInfo.cluster ELSE fileInfo.cluster % 65536,
                         fileInfo.size)
        d1 == IF v = "FAT32" /\ dirOffset >= 1
                 /\ SlotAt(disk, dirOffset - 1).k = "lfn"
                 /\ SlotAt(disk, dirOffset - 1).attr = ENTRY_ATTRIBUTE_LONG_FILE_NAME
              THEN WriteSlot(disk, dirOffset - 1, DelSlot)
              ELSE disk
    IN WriteSlot(d1, dirOffset, entry)

\* the name the scans of updateDirectoryEntry, deleteDirectoryEntry and
\* modifyDirectoryEntryName parse from a slot's 11 name bytes
SlotName8_3(entry) == IF entry.k = "sde" THEN DecodeName11(entry.name) ELSE <<>>

\* FAT12 / FAT16: the scan of at most maxEntries slots from dirOffset; result
\* [entryOffset, freeSlotOffset, foundFree, foundExisting]
RECURSIVE updateScan(_, _, _, _, _, _, _, _, _)
updateScan(disk, maxEntries, totalEntriesNeeded, name, i, entryOffset, freeSlotOffset, consecutiveFreeSlots, foundFree) ==
    IF i >= maxEntries
    THEN [entryOffset |-> entryOffset, freeSlotOffset |-> freeSlotOffset,
          foundFree |-> foundFree, foundExisting |-> FALSE]
    ELSE LET entry == SlotAt(disk, entryOffset)
             firstByte == SlotFirstByte(entry)
         IN IF firstByte = ENTRY_END_OF_DIRECTORY \/ firstByte = ENTRY_DELETED
            THEN LET free1 == IF consecutiveFreeSlots = 0 THEN entryOffset ELSE freeSlotOffset
                     found1 == foundFree \/ consecutiveFreeSlots + 1 >= totalEntriesNeeded
                 IN IF firstByte = ENTRY_END_OF_DIRECTORY
                    THEN [entryOffset |-> entryOffset, freeSlotOffset |-> free1,
                          foundFree |-> found1, foundExisting |-> FALSE]
                    ELSE updateScan(disk, maxEntries, totalEntriesNeeded, name, i + 1,
                                    entryOffset + 1, free1, consecutiveFreeSlots + 1, found1)
            ELSE IF isLongFileNameEntry(entry)
                 THEN updateScan(disk, maxEntries, totalEntriesNeeded, name, i + 1,
                                 entryOffset + 1, freeSlotOffset, 0, foundFree)
            ELSE IF ToUpper(SlotName8_3(entry)) = ToUpper(name)
                 THEN [entryOffset |-> entryOffset, freeSlotOffset |-> freeSlotOffset,
                       foundFree |-> foundFree, foundExisting |-> TRUE]
            ELSE updateScan(disk, maxEntries, totalEntriesNeeded, name, i + 1,
                            entryOffset + 1, freeSlotOffset, 0, foundFree)

\* the LFN entries seq = lfnEntriesNeeded .. 1 written from currentOffset on
RECURSIVE writeLFNEntries(_, _, _, _, _, _)
writeLFNEntries(disk, longName, checksum, lfnEntriesNeeded, seq, currentOffset) ==
    IF seq < 1 THEN disk
    ELSE writeLFNEntries(
             WriteSlot(disk, currentOffset,
                       writeLFNEntry(longName, seq, checksum, seq = lfnEntriesNeeded)),
             longName, checksum, lfnEntriesNeeded, seq - 1, currentOffset + 1)

MapPut(map, key, value) ==
    [k \in DOMAIN map \cup {key} |-> IF k = key THEN value ELSE map[k]]

\* updateDirectoryEntry: LFN entries are wanted for a short name with a tail
needsLFN(fileInfo) ==
    /\ Contains(fileInfo.name, Tilde)
    /\ fileInfo.longName # <<>>
    /\ ToUpper(fileInfo.longName) # ToUpper(fileInfo.name)
lfnEntriesNeeded(fileInfo) ==
    IF needsLFN(fileInfo) THEN calculateLFNEntriesNeeded(fileInfo.longName) ELSE 0
\* the map entry stored when an entry is written without LFN entries
storeMapping(S, fileInfo) ==
    IF fileInfo.longName # <<>> /\ ToLower(fileInfo.longName) # ToLower(fileInfo.name)
    THEN MapPut(S.map, ToLower(fileInfo.longName), fileInfo.name)
    ELSE S.map

\* FAT12 / FAT16 updateDirectoryEntry on the region (dirOffset, maxEntries),
\* after its scan sc; result [ok, S]
updateDirectoryEntry16_scanned(S, dirOffset, maxEntries, fileInfo, sc) ==
    LET single == {o \in dirOffset..(dirOffset + maxEntries - 1) :
                      SlotFirstByte(SlotAt(S.disk, o)) \in {ENTRY_END_OF_DIRECTORY, ENTRY_DELETED}}
    IN IF sc.foundExisting
       THEN [ok |-> TRUE,
             S |-> [S EXCEPT !.disk = createDirectoryEntry(S.v, S.disk, sc.entryOffset, fileInfo)]]
       ELSE IF sc.foundFree
       THEN IF needsLFN(fileInfo)
            THEN [ok |-> TRUE,
                  S |-> [S EXCEPT !.disk = createDirectoryEntry(S.v,
                            writeLFNEntries(S.disk, fileInfo.longName,
                                calculateLFNChecksum(fileInfo.name),
                                lfnEntriesNeeded(fileInfo), lfnEntriesNeeded(fileInfo),
                                sc.freeSlotOffset),
                            sc.freeSlotOffset + lfnEntriesNeeded(fileInfo), fileInfo)]]
            ELSE [ok |-> TRUE,
                  S |-> [S EXCEPT
                     !.map = storeMapping(S, fileInfo),
                     !.disk = createDirectoryEntry(S.v, S.disk, sc.freeSlotOffset, fileInfo)]]
       ELSE IF needsLFN(fileInfo) /\ single # {}
       THEN [ok |-> TRUE,
             S |-> [S EXCEPT
                !.map = MapPut(S.map, ToLower(fileInfo.longName), fileInfo.name),
                !.disk = createDirectoryEntry(S.v, S.disk,
                             CHOOSE o \in single : \A q \in single : o <= q, fileInfo)]]
       ELSE [ok |-> FALSE, S |-> S]
updateDirectoryEntry16(S, dirOffset, maxEntries, fileInfo) ==
    updateDirectoryEntry16_scanned(S, dirOffset, maxEntries, fileInfo,
        updateScan(S.disk, maxEntries, lfnEntriesNeeded(fileInfo) + 1, fileInfo.name,
                   0, dirOffset, 0, 0, FALSE))

\* FAT32: the scan along the directory's cluster chain; result
\* [existingOffset, freeSlotOffset, foundFree, foundExisting]
RECURSIVE updateScan32(_, _, _, _, _, _, _, _)
updateScan32(S, name, currentCluster, i, entryOffset, freeSlotOffset, foundFree, visited) ==
    IF ~(currentCluster >= 2 /\ currentCluster < ChainLimit(S.v)) \/ visited > MaxCluster
    THEN [existingOffset |-> 0, freeSlotOffset |-> freeSlotOffset,
          foundFree |-> foundFree, foundExisting |-> FALSE]
    ELSE IF i >= ClusterSize
    THEN IF foundFree
         THEN [existingOffset |-> 0, freeSlotOffset |-> freeSlotOffset,
               foundFree |-> TRUE, foundExisting |-> FALSE]
         ELSE LET next == readNextCluster(S.v, S.fat, currentCluster)
              IN updateScan32(S, name, next, 0, calculateClusterOffset(S.v, next),
                              freeSlotOffset, foundFree, visited + 1)
    ELSE LET entry == SlotAt(S.disk, entryOffset)
             firstByte == SlotFirstByte(entry)
             free1 == IF foundFree THEN freeSlotOffset ELSE entryOffset
         IN IF firstByte = ENTRY_END_OF_DIRECTORY
            THEN [existingOffset |-> 0, freeSlotOffset |-> free1,
                  foundFree |-> TRUE, foundExisting |-> FALSE]
            ELSE IF firstByte = ENTRY_DELETED
            THEN updateScan32(S, name, currentCluster, i + 1, entryOffset + 1, free1, TRUE, visited)
            ELSE IF isLongFileNameEntry(entry)
            THEN updateScan32(S, name, currentCluster, i + 1, entryOffset + 1,
                              freeSlotOffset, foundFree, visited)
            ELSE IF ToUpper(SlotName8_3(entry)) = ToUpper(name)
            THEN [existingOffset |-> entryOffset, freeSlotOffset |-> freeSlotOffset,
                  foundFree |-> foundFree, foundExisting |-> TRUE]
            ELSE updateScan32(S, name, currentCluster, i + 1, entryOffset + 1,
                              freeSlotOffset, foundFree, visited)

updateDirectoryEntry32_scanned(S, fileInfo, sc) ==
    IF sc.foundExisting
    THEN [ok |-> TRUE,
          S |-> [S EXCEPT !.disk = createDirectoryEntry(S.v, S.disk, sc.existingOffset, fileInfo)]]
    ELSE IF sc.foundFree
    THEN [ok |-> TRUE,
          S |-> [S EXCEPT
             !.map = storeMapping(S, fileInfo),
             !.disk = createDirectoryEntry(S.v, S.disk, sc.freeSlotOffset, fileInfo)]]
    ELSE [ok |-> FALSE, S |-> S]
updateDirectoryEntry32(S, startCluster, fileInfo) ==
    updateDirectoryEntry32_scanned(S, fileInfo,
        updateScan32(S, fileInfo.name, startCluster, 0,
                     calculateClusterOffset(S.v, startCluster), 0, FALSE, 0))

\* updateDirectoryEntry(parentPath, fileInfo); parentPath as components, <<>> = "/"
updateDirectoryEntry_found(S, fileInfo, r) ==
    IF r.error # "None" \/ ~r.info.isDirectory THEN [ok |-> FALSE, S |-> NoteError(S, r.error)]
    ELSE IF S.v = "FAT32"
         THEN updateDirectoryEntry32(NoteError(S, r.error), r.info.cluster, fileInfo)
    ELSE updateDirectoryEntry16(NoteError(S, r.error),
                                calculateClusterOffset(S.v, r.info.cluster), ClusterSize, fileInfo)
updateDirectoryEntry(S, parentParts, fileInfo) ==
    IF parentParts = <<>>
    THEN IF S.v = "FAT32" THEN updateDirectoryEntry32(S, readRootDirCluster, fileInfo)
         ELSE updateDirectoryEntry16(S, calculateRootDirOffset, readRootEntryCount(S.v), fileInfo)
    ELSE updateDirectoryEntry_found(S, fileInfo, findFileByPath(S, parentParts))

\* a path's parent components and last component
ParentOf(parts) == SubSeq(parts, 1, Len(parts) - 1)
LastOf(parts) == parts[Len(parts)]

\* the slot positions the scans of deleteDirectoryEntry and
\* modifyDirectoryEntryName visit: up to n slots from offset, stopping at the
\* first slot whose first byte is END_OF_DIRECTORY
RECURSIVE scanRegion(_, _, _)
scanRegion(disk, offset, n) ==
    IF n = 0 \/ SlotFirstByte(SlotAt(disk, offset)) = ENTRY_END_OF_DIRECTORY THEN <<>>
    ELSE <<offset>> \o scanRegion(disk, offset + 1, n - 1)

\* FAT32: the same scan cluster by cluster along the chain
RECURSIVE scanChain32(_, _, _)
scanChain32(S, currentCluster, visited) ==
    IF currentCluster >= 2 /\ currentCluster < ChainLimit(S.v) /\ visited <= MaxCluster
    THEN scanRegion(S.disk, calculateClusterOffset(S.v, currentCluster), ClusterSize)
         \o scanChain32(S, readNextCluster(S.v, S.fat, currentCluster), visited + 1)
    ELSE <<>>

\* the directory a parent path names, as the scans see it: [ok, offsets, S]
scanParent_found(S, r) ==
    IF r.error # "None" \/ ~r.info.isDirectory
    THEN [ok |-> FALSE, S |-> NoteError(S, r.error), offsets |-> <<>>]
    ELSE [ok |-> TRUE, S |-> NoteError(S, r.error),
          offsets |-> IF S.v = "FAT32" THEN scanChain32(S, r.info.cluster, 0)
                      ELSE scanRegion(S.disk, calculateClusterOffset(S.v, r.info.cluster),
                                      ClusterSize)]
scanParent(S, parentParts) ==
    IF parentParts = <<>>
    THEN [ok |-> TRUE, S |-> S,
          offsets |-> IF S.v = "FAT32" THEN scanChain32(S, readRootDirCluster, 0)
                      ELSE scanRegion(S.disk, calculateRootDirOffset, readRootEntryCount(S.v))]
    ELSE scanParent_found(S, findFileByPath(S, parentParts))

\* position (in offsets) of the first live short entry whose parsed name,
\* upper-cased, is one of names; 0 when there is none
findEntry(disk, offsets, names) ==
    LET First(hits) == IF hits = {} THEN 0 ELSE CHOOSE i \in hits : \A j \in hits : i <= j
    IN First({i \in 1..Len(offsets) :
                 LET entry == SlotAt(disk, offsets[i])
                 IN /\ SlotFirstByte(entry) # ENTRY_DELETED
                    /\ ~isLongFileNameEntry(entry)
                    /\ ToUpper(SlotName8_3(entry)) \in names})

MapValue(map, key, default) == IF key \in DOMAIN map THEN map[key] ELSE default

\* a variant of deleteDirectoryEntry's marking step that clears the entry's
\* first byte to 0x00 where the code writes 0xE5
deleteDirectoryEntry_at_cleared(S, sp, at) ==
    IF ~sp.ok \/ at = 0 THEN [ok |-> FALSE, S |-> sp.S]
    ELSE [ok |-> TRUE, S |-> [sp.S EXCEPT !.disk = WriteSlot(S.disk, sp.offsets[at], EndSlot)]]

\* deleteDirectoryEntry(path): marks the matching short entry deleted; [ok, S]
deleteDirectoryEntry_at(S, sp, at) ==
    IF ~sp.ok \/ at = 0 THEN [ok |-> FALSE, S |-> sp.S]
    ELSE [ok |-> TRUE, S |-> [sp.S EXCEPT !.disk = WriteSlot(S.disk, sp.offsets[at], DelSlot)]]
deleteDirectoryEntry_scanned(S, fileName, sp) ==
    deleteDirectoryEntry_at(S, sp,
        findEntry(S.disk, sp.offsets,
                  IF S.v = "FAT12"
                  THEN {ToUpper(MapValue(S.map, ToLower(fileName), fileName)), ToUpper(fileName)}
                  ELSE {ToUpper(fileName)}))
deleteDirectoryEntry(S, parts) ==
    IF parts = <<>> THEN [ok |-> FALSE, S |-> S]
    ELSE deleteDirectoryEntry_scanned(S, LastOf(parts), scanParent(S, ParentOf(parts)))

\* the lookup of a parent path; the root needs none
parentLookup(S, parentParts) ==
    IF parentParts = <<>> THEN [info |-> NoFileInfo, error |-> "None"]
    ELSE findFileByPath(S, parentParts)
\* the parent directory's listing used to generate a short name, given the
\* parent lookup pr; empty when the parent is not a directory
parentListing(S, parentParts, pr) ==
    IF parentParts = <<>> THEN listRootDirectory(S)
    ELSE IF pr.error = "None" /\ pr.info.isDirectory THEN listDirectory(S, pr.info.cluster)
    ELSE <<>>

\* modifyDirectoryEntryName(path, newName): rewrites the 11 name bytes of the
\* matching short entry; result [name, S], name = <<>> on failure
modifyDirectoryEntryName_at(S, sp, at, newShortName) ==
    IF ~sp.ok \/ at = 0 THEN [name |-> <<>>, S |-> sp.S]
    ELSE [name |-> newShortName,
          S |-> [sp.S EXCEPT !.disk =
                   WriteSlot(S.disk, sp.offsets[at],
                       [SlotAt(S.disk, sp.offsets[at]) EXCEPT
                           !.name = EncodeName11(newShortName)])]]
modifyDirectoryEntryName_scanned(S, parts, newName, sp) ==
    modifyDirectoryEntryName_at(S, sp,
        findEntry(S.disk, sp.offsets,
            CASE S.v = "FAT12" ->
                   {ToUpper(MapValue(S.map, ToLower(LastOf(parts)), LastOf(parts))),
                    ToUpper(LastOf(parts))}
              [] S.v = "FAT16" -> {ToUpper(LastOf(parts))}
              [] OTHER -> {ToUpper(MapValue(S.map, ToLower(LastOf(parts)), LastOf(parts)))}),
        generateShortName(newName,
            parentListing(S, ParentOf(parts), parentLookup(S, ParentOf(parts)))))
modifyDirectoryEntryName(S, parts, newName) ==
    IF parts = <<>> THEN [name |-> <<>>, S |-> S]
    ELSE modifyDirectoryEntryName_scanned(S, parts, newName, scanParent(S, ParentOf(parts)))

isDirectoryEmpty(S, cluster) == IF cluster < 2 THEN TRUE ELSE listDirectory(S, cluster) = <<>>

-----------------------------------------------------------------------------
(* Public operations.  Each returns [ok, error, S]: the bool result, the   *)
(* error out-parameter and the volume state it leaves.                     *)

\* writeClusterData for every cluster of the chain: the data, the last
\* cluster padded with zero bytes
RECURSIVE writeClusters(_, _, _, _, _)
writeClusters(v, disk, clusters, data, i) ==
    IF i > Len(clusters) THEN disk
    ELSE LET clusterData == [j \in 1..ClusterSize |->
                                IF (i - 1) * ClusterSize + j <= Len(data)
                                THEN data[(i - 1) * ClusterSize + j] ELSE EndSlot]
             offset == calculateClusterOffset(v, clusters[i])
             d1 == [k \in 1..Len(disk) |->
                       IF k - offset \in 1..ClusterSize THEN clusterData[k - offset] ELSE disk[k]]
         IN writeClusters(v, d1, clusters, data, i + 1)

Fail(S, error) == [ok |-> FALSE, error |-> error, S |-> [S EXCEPT !.le = error]]
Ok(S) == [ok |-> TRUE, error |-> "None", S |-> S]
\* a failed directory-entry write is reported as WriteError
writeResult(de) == IF ~de.ok THEN Fail(de.S, "WriteError") ELSE Ok(de.S)
\* a failed sub-operation's error is re-emitted
passResult(r) == IF ~r.ok THEN Fail(r.S, r.error) ELSE r

\* The steps of writeFile in the order of the code: the existence check and
\* the freeing of the old chain, the allocation and the data, the parent
\* lookup and listing with the short name, the directory entry.
writeFile_updated(fileName, fileInfo, up) ==
    IF ~up.ok
    THEN [ok |-> FALSE, error |-> "WriteError",
          S |-> [up.S EXCEPT !.le = "WriteError",
                    !.fat = IF fileInfo.cluster >= 2
                            THEN freeClusterChain(up.S.v, up.S.fat, fileInfo.cluster)
                            ELSE up.S.fat]]
    ELSE Ok(IF up.S.v = "FAT12"
            THEN [up.S EXCEPT !.map = MapPut(up.S.map, ToLower(fileName), fileInfo.name)]
            ELSE up.S)
writeFile_named(S2, parts, fileInfo) ==
    writeFile_updated(LastOf(parts), fileInfo,
                      updateDirectoryEntry(S2, ParentOf(parts), fileInfo))
writeFile_parentFound(S1, parts, data, chk, pr, firstCluster) ==
    writeFile_named(NoteError(S1, pr.error), parts,
        FileInfo(IF chk.error = "None" THEN chk.info.name
                 ELSE generateShortName(LastOf(parts), parentListing(S1, ParentOf(parts), pr)),
                 LastOf(parts), ENTRY_ATTRIBUTE_ARCHIVE, Len(data), firstCluster))
writeFile_allocated(S0, parts, data, chk, al) ==
    IF data # <<>> /\ al.chain = <<>>
    THEN [ok |-> FALSE, error |-> "InsufficientSpace",
          S |-> [S0 EXCEPT !.fat = al.fat, !.le = "InsufficientSpace"]]
    ELSE writeFile_parentFound(
             [S0 EXCEPT !.fat = al.fat,
                        !.disk = writeClusters(S0.v, S0.disk, al.chain, data, 1)],
             parts, data, chk,
             parentLookup([S0 EXCEPT !.fat = al.fat,
                                     !.disk = writeClusters(S0.v, S0.disk, al.chain, data, 1)],
                          ParentOf(parts)),
             IF data # <<>> THEN al.chain[1] ELSE 0)
\* the FAT after the old chain of an existing target is freed
writeFile_freed(S, chk) ==
    IF chk.error = "None" /\ chk.info.cluster >= 2
    THEN freeClusterChain(S.v, S.fat, chk.info.cluster) ELSE S.fat
writeFile_checked(S, parts, data, chk) ==
    writeFile_allocated(NoteError(S, chk.error), parts, data, chk,
        IF data # <<>>
        THEN allocateClusterChain(S.v, writeFile_freed(S, chk),
                                  (Len(data) + ClusterSize - 1) \div ClusterSize)
        ELSE [fat |-> writeFile_freed(S, chk), chain |-> <<>>])
\* the volume at the points of writeFile between its device writes that come
\* before the directory entry is written: after the old chain of an existing
\* target is freed, after the new chain is allocated, after the data is written
writeFile_points_allocated(S, data, al) ==
    {[S EXCEPT !.fat = al.fat],
     [S EXCEPT !.fat = al.fat, !.disk = writeClusters(S.v, S.disk, al.chain, data, 1)]}
writeFile_points_checked(S, data, chk) ==
    {[S EXCEPT !.fat = writeFile_freed(S, chk)]}
        \cup (IF data = <<>> THEN {}
              ELSE writeFile_points_allocated(S, data,
                       allocateClusterChain(S.v, writeFile_freed(S, chk),
                                            (Len(data) + ClusterSize - 1) \div ClusterSize)))
writeFile_points(S, parts, data) ==
    writeFile_points_checked(S, data, findFileByPath(S, parts))
writeFile(S, parts, data) ==
    IF parts = <<>> THEN Fail(S, "InvalidPath")
    ELSE writeFile_checked(S, parts, data, findFileByPath(S, parts))

deleteFile_found(S, parts, r) ==
    IF r.error # "None" THEN Fail(NoteError(S, r.error), r.error)
    ELSE IF r.info.isDirectory /\ S.v = "FAT12" THEN Fail(NoteError(S, r.error), "InvalidPath")
    ELSE IF r.info.isDirectory /\ ~isDirectoryEmpty(NoteError(S, r.error), r.info.cluster)
         THEN Fail(NoteError(S, r.error), "InvalidPath")
    ELSE writeResult(deleteDirectoryEntry(
             IF r.info.cluster >= 2
             THEN [NoteError(S, r.error) EXCEPT
                      !.fat = freeClusterChain(S.v, S.fat, r.info.cluster)]
             ELSE NoteError(S, r.error),
             IF S.v = "FAT32" /\ r.info.name # <<>>
             THEN Append(ParentOf(parts), r.info.name)
             ELSE parts))
deleteFile(S, parts) == deleteFile_found(S, parts, findFileByPath(S, parts))

\* the "." and ".." entries: 32 spaces, then the name, the attribute byte and
\* the cluster bytes set (the size bytes stay four spaces)
DotEntry(name, cluster) ==
    SdeSlot(LeftJustified(name, 11), ENTRY_ATTRIBUTE_DIRECTORY, cluster, 538976288)

\* The steps of createDirectory: the existence check, the parent lookup, the
\* allocation and the "." / ".." entries, the short name, the directory entry.
createDirectory_updated(dirName, shortName, dirCluster, up) ==
    IF ~up.ok
    THEN Fail([up.S EXCEPT !.fat = freeClusterChain(up.S.v, up.S.fat, dirCluster)], "WriteError")
    ELSE Ok(IF up.S.v = "FAT12"
            THEN [up.S EXCEPT !.map = MapPut(up.S.map, ToLower(dirName), shortName)]
            ELSE up.S)
createDirectory_named(S2, parts, shortName, dirCluster) ==
    createDirectory_updated(LastOf(parts), shortName, dirCluster,
        updateDirectoryEntry(S2, ParentOf(parts),
            FileInfo(shortName, IF S2.v = "FAT32" THEN shortName ELSE LastOf(parts),
                     ENTRY_ATTRIBUTE_DIRECTORY, 0, dirCluster)))
\* the new directory's cluster allocated and its "." and ".." entries written
createDirectory_written(S1, parts, pr, al) ==
    [S1 EXCEPT !.fat = al.fat,
               !.disk = writeClusters(S1.v, S1.disk, al.chain,
                            <<DotEntry(<<Dot>>, al.chain[1]),
                              DotEntry(<<Dot, Dot>>,
                                  IF ParentOf(parts) # <<>> THEN pr.info.cluster
                                  ELSE IF S1.v = "FAT32" THEN readRootDirCluster
                                  ELSE 0)>>, 1)]
createDirectory_allocated(S1, parts, pr, al) ==
    IF al.chain = <<>> THEN Fail([S1 EXCEPT !.fat = al.fat], "InsufficientSpace")
    ELSE createDirectory_named(createDirectory_written(S1, parts, pr, al), parts,
             generateShortName(LastOf(parts),
                 parentListing(createDirectory_written(S1, parts, pr, al), ParentOf(parts), pr)),
             al.chain[1])
createDirectory_parentFound(S0, parts, pr) ==
    IF ParentOf(parts) # <<>> /\ (pr.error # "None" \/ ~pr.info.isDirectory)
    THEN Fail(NoteError(S0, pr.error), "DirectoryNotFound")
    ELSE createDirectory_allocated(NoteError(S0, pr.error), parts, pr,
                                   allocateClusterChain(S0.v, S0.fat, 1))
createDirectory_checked(S, parts, chk) ==
    IF chk.error = "None" THEN Fail(NoteError(S, chk.error), "InvalidPath")
    ELSE IF parts = <<>> THEN Fail(NoteError(S, chk.error), "InvalidPath")
    ELSE createDirectory_parentFound(NoteError(S, chk.error), parts,
                                     parentLookup(NoteError(S, chk.error), ParentOf(parts)))
createDirectory(S, parts) == createDirectory_checked(S, parts, findFileByPath(S, parts))

MapRemove(map, key) == [k \in DOMAIN map \ {key} |-> map[k]]

RECURSIVE deleteDirectory(_, _, _)
RECURSIVE deleteEntries(_, _, _, _)

\* the recursive branch of deleteDirectory: the entries listed at entry, one
\* after the other; stops at the first failure
deleteEntries_done(parts, entries, i, r) ==
    IF ~r.ok THEN Fail(r.S, r.error)
    ELSE deleteEntries(r.S, parts, entries, i + 1)
deleteEntries(S, parts, entries, i) ==
    IF i > Len(entries) THEN Ok(S)
    ELSE deleteEntries_done(parts, entries, i,
             IF entries[i].isDirectory
             THEN deleteDirectory(S, Append(parts, IF S.v = "FAT12" THEN entries[i].name
                                                   ELSE entries[i].longName), TRUE)
             ELSE deleteFile(S, Append(parts, IF S.v = "FAT12" THEN entries[i].name
                                              ELSE entries[i].longName)))

\* FAT12: after the entries, the chain is freed and the entry marked deleted
deleteDirectory12_emptied(parts, dirInfo, dr) ==
    IF ~dr.ok THEN dr
    ELSE writeResult(deleteDirectoryEntry(
             IF dirInfo.cluster >= 2
             THEN [dr.S EXCEPT !.fat = freeClusterChain(dr.S.v, dr.S.fat, dirInfo.cluster)]
             ELSE dr.S,
             parts))
\* FAT16 / FAT32: after the entries, deleteFile removes the directory itself
deleteDirectory16_emptied(parts, dr) == IF ~dr.ok THEN dr ELSE deleteFile(dr.S, parts)
deleteDirectory_looked(S0, parts, recursive, r) ==
    IF r.error # "None" THEN Fail(S0, r.error)
    ELSE IF ~r.info.isDirectory THEN Fail(S0, "InvalidPath")
    ELSE IF S0.v = "FAT12"
    THEN IF ~recursive /\ ~isDirectoryEmpty(S0, r.info.cluster) THEN Fail(S0, "WriteError")
         ELSE deleteDirectory12_emptied(parts, r.info,
                  IF recursive
                  THEN deleteEntries(S0, parts, listDirectory(S0, r.info.cluster), 1)
                  ELSE Ok(S0))
    ELSE IF recursive
         THEN deleteDirectory16_emptied(parts,
                  deleteEntries(S0, parts, listDirectory(S0, r.info.cluster), 1))
         ELSE IF listDirectory(S0, r.info.cluster) # <<>> THEN Fail(S0, "InvalidPath")
         ELSE deleteFile(S0, parts)
deleteDirectory_found(S, parts, recursive, r) ==
    deleteDirectory_looked(NoteError(S, r.error), parts, recursive, r)
deleteDirectory(S, parts, recursive) ==
    deleteDirectory_found(S, parts, recursive, findFileByPath(S, parts))

\* the part of moveFile after the source and destination checks (FAT16 / FAT32)
moveFile16_written(sourceParts, wr) ==
    IF ~wr.ok THEN Fail(wr.S, wr.error)
    ELSE passResult(deleteFile(wr.S, sourceParts))
moveFile16_read(S1, sourceParts, destParts, rd) ==
    IF rd.error # "None" THEN Fail(NoteError(S1, rd.error), rd.error)
    ELSE moveFile16_written(sourceParts, writeFile(NoteError(S1, rd.error), destParts, rd.data))
moveFile16_updated(sourceParts, up) ==
    IF ~up.ok THEN Fail(up.S, "WriteError")
    ELSE writeResult(deleteDirectoryEntry(up.S, sourceParts))
moveFile16_parentFound(S, sourceInfo, sourceParts, destParts, pr) ==
    IF ParentOf(destParts) # <<>> /\ (pr.error # "None" \/ ~pr.info.isDirectory)
    THEN Fail(NoteError(S, pr.error), "DirectoryNotFound")
    ELSE IF sourceInfo.isDirectory
    THEN moveFile16_updated(sourceParts,
             updateDirectoryEntry(NoteError(S, pr.error), ParentOf(destParts),
                 [sourceInfo EXCEPT !.longName = LastOf(destParts)]))
    ELSE moveFile16_read(NoteError(S, pr.error), sourceParts, destParts,
                         readFile(NoteError(S, pr.error), sourceParts))
moveFile16(S, sourceInfo, sourceParts, destParts) ==
    moveFile16_parentFound(S, sourceInfo, sourceParts, destParts,
                           parentLookup(S, ParentOf(destParts)))

\* FAT12: the source is deleted first, then re-created at the destination
moveFile12_deleted(sourceInfo, destParts, data, dl) ==
    IF ~dl.ok THEN Fail(dl.S, dl.error)
    ELSE passResult(IF sourceInfo.isDirectory THEN createDirectory(dl.S, destParts)
                    ELSE writeFile(dl.S, destParts, data))
moveFile12_read(S1, sourceInfo, sourceParts, destParts, rd) ==
    IF rd.error # "None" THEN Fail(NoteError(S1, rd.error), rd.error)
    ELSE moveFile12_deleted(sourceInfo, destParts, rd.data,
             IF sourceInfo.isDirectory
             THEN deleteDirectory(NoteError(S1, rd.error), sourceParts, TRUE)
             ELSE deleteFile(NoteError(S1, rd.error), sourceParts))
moveFile12_parentFound(S, sourceInfo, sourceParts, destParts, pr) ==
    IF ParentOf(destParts) # <<>> /\ (pr.error # "None" \/ ~pr.info.isDirectory)
    THEN Fail(NoteError(S, pr.error), "DirectoryNotFound")
    ELSE moveFile12_read(NoteError(S, pr.error), sourceInfo, sourceParts, destParts,
             IF sourceInfo.isDirectory THEN [data |-> <<>>, error |-> "None"]
             ELSE readFile(NoteError(S, pr.error), sourceParts))
moveFile12(S, sourceInfo, sourceParts, destParts) ==
    IF destParts = <<>> THEN Fail(S, "InvalidPath")
    ELSE moveFile12_parentFound(S, sourceInfo, sourceParts, destParts,
                                parentLookup(S, ParentOf(destParts)))

moveFile_dest(S0, sourceParts, destParts, sr, ds) ==
    IF ds.error = "None"
    THEN Fail(NoteError(S0, ds.error), IF S0.v = "FAT12" THEN "InvalidFileName" ELSE "InvalidPath")
    ELSE IF S0.v = "FAT12"
         THEN moveFile12(NoteError(S0, ds.error), sr.info, sourceParts, destParts)
    ELSE moveFile16(NoteError(S0, ds.error), sr.info, sourceParts, destParts)
moveFile_source(S, sourceParts, destParts, sr) ==
    IF sr.error # "None" THEN Fail(NoteError(S, sr.error), sr.error)
    ELSE moveFile_dest(NoteError(S, sr.error), sourceParts, destParts, sr,
                       findFileByPath(NoteError(S, sr.error), destParts))
moveFile(S, sourceParts, destParts) ==
    moveFile_source(S, sourceParts, destParts, findFileByPath(S, sourceParts))

renameFile_modified(oldKey, newName, md) ==
    IF md.name = <<>> THEN Fail(md.S, "WriteError")
    ELSE Ok([md.S EXCEPT !.map =
                MapPut(MapRemove(md.S.map, oldKey), ToLower(newName), md.name)])
renameFile_dest(S0, oldParts, newParts, fr, ex) ==
    IF ex.error = "None"
    THEN Fail(NoteError(S0, ex.error), IF S0.v = "FAT12" THEN "InvalidFileName" ELSE "InvalidPath")
    ELSE IF newParts = <<>> THEN Fail(NoteError(S0, ex.error), "InvalidPath")
    ELSE renameFile_modified(IF S0.v = "FAT12" THEN ToLower(fr.info.longName)
                             ELSE ToLower(LastOf(oldParts)),
                             LastOf(newParts),
                             modifyDirectoryEntryName(NoteError(S0, ex.error), oldParts,
                                                      LastOf(newParts)))
renameFile_found(S, oldParts, newParts, fr) ==
    IF fr.error # "None" THEN Fail(NoteError(S, fr.error), fr.error)
    ELSE IF S.v # "FAT12" /\ (oldParts = <<>> \/ newParts = <<>>)
         THEN Fail(NoteError(S, fr.error), "InvalidPath")
    ELSE IF S.v # "FAT12" /\ ParentOf(oldParts) # ParentOf(newParts)
         THEN moveFile(NoteError(S, fr.error), oldParts, newParts)
    ELSE renameFile_dest(NoteError(S, fr.error), oldParts, newParts, fr,
                         findFileByPath(NoteError(S, fr.error), newParts))
renameFile(S, oldParts, newParts) ==
    renameFile_found(S, oldParts, newParts, findFileByPath(S, oldParts))

getFreeSpace(S) ==
    Cardinality({c \in Clusters : c < TotalClusters /\
                    (IF S.v = "FAT12" THEN readNextCluster(S.v, S.fat, c)
                     ELSE FatEntry(S.v, S.fat, c)) = 0}) * ClusterSize

-----------------------------------------------------------------------------
(* The creation time of one file's directory entry: the 16-bit date and time *)
(* words createDirectoryEntry stores and parseDirectoryEntry reads back      *)

ENTRY_DATE_TIME_START_OF_YEAR == 1980

\* QDateTime values: calendar fields; the default-constructed one is invalid
DateTime(year, month, day, hour, minute, second) ==
    [year |-> year, month |-> month, day |-> day,
     hour |-> hour, minute |-> minute, second |-> second]
InvalidDateTime == DateTime(0, 0, 0, 0, 0, 0)
DaysInMonth(year, month) ==
    IF month \in {4, 6, 9, 11} THEN 30
    ELSE IF month = 2
    THEN (IF year % 4 = 0 /\ (year % 100 # 0 \/ year % 400 = 0) THEN 29 ELSE 28)
    ELSE 31
\* QDateTime::isValid: a valid QDate and a valid QTime
isValid(dt) ==
    /\ dt.month \in 1..12
    /\ dt.day \in 1..DaysInMonth(dt.year, dt.month)
    /\ dt.year # 0
    /\ dt.hour \in 0..23 /\ dt.minute \in 0..59 /\ dt.second \in 0..59

encodeFATDateTime(dt) ==
    IF ~isValid(dt) THEN [date |-> 0, time |-> 0]
    ELSE [date |-> (dt.day % 32) + ((dt.month % 16) * 32)
                     + ((Min(Max(dt.year - ENTRY_DATE_TIME_START_OF_YEAR, 0), 127) % 128) * 512),
          time |-> ((dt.second \div 2) % 32) + ((dt.minute % 64) * 32)
                     + ((dt.hour % 32) * 2048)]
\* QDateTime(QDate, QTime) built from out-of-range fields is the invalid one
parseDateTime(date, time) ==
    LET dt == DateTime(ENTRY_DATE_TIME_START_OF_YEAR + ((date \div 512) % 128),
                       (date \div 32) % 16,
                       (date % 32) + 1,
                       (time \div 2048) % 32, (time \div 32) % 64, (time % 32) * 2)
    IN IF isValid(dt) THEN dt ELSE InvalidDateTime

\* the entry of the file: absent, or present with its stored creation words
NoStamp == [present |-> FALSE, date |-> 0, time |-> 0]
Stamp(words) == [present |-> TRUE, date |-> words.date, time |-> words.time]
\* info.created as parseDirectoryEntry reports it
parseDirectoryEntry_created(entry) ==
    IF entry.date # 0 THEN parseDateTime(entry.date, entry.time)
    ELSE InvalidDateTime
\* the creation words createDirectoryEntry writes for fileInfo.created
createDirectoryEntry_created(created, now) ==
    Stamp(encodeFATDateTime(IF isValid(created) THEN created ELSE now))
\* writeFile: fileInfo.created = fileExists ? existingFile.created : now
writeFile_created(entry, now) ==
    createDirectoryEntry_created(
        IF entry.present THEN parseDirectoryEntry_created(entry) ELSE now, now)


-----------------------------------------------------------------------------
(* The FAT region of the device byte by byte: the offsets and the 12-, 16-   *)
(* and 32-bit accesses of readNextCluster, writeNextCluster, findFreeCluster *)

\* a device: the BPB fields the FAT code reads, the number of clusters of the
\* data region, and the bytes that differ from 0
Device(v, bytesPerSector, reservedSectors, sectorsPerFAT, numFATs, dataClusters, bytes) ==
    [v |-> v, bytesPerSector |-> bytesPerSector, reservedSectors |-> reservedSectors,
     sectorsPerFAT |-> sectorsPerFAT, numFATs |-> numFATs,
     dataClusters |-> dataClusters, bytes |-> bytes]
NoDevice == Device("FAT16", 0, 0, 0, 0, 0, <<>>)

\* QDataStream in little-endian order at a device position after seek
ByteAt(bytes, offset) == IF offset \in DOMAIN bytes THEN bytes[offset] ELSE 0
Read16(bytes, offset) == ByteAt(bytes, offset) + (256 * ByteAt(bytes, offset + 1))
\* a quint32 read and masked with 0x0FFFFFFF
Read28(bytes, offset) == Read16(bytes, offset) + (65536 * (Read16(bytes, offset + 2) % 4096))
Write16(bytes, offset, value) ==
    [o \in DOMAIN bytes \cup {offset, offset + 1} |->
        IF o = offset THEN value % 256
        ELSE IF o = offset + 1 THEN (value \div 256) % 256
        ELSE bytes[o]]
Write32(bytes, offset, value) ==
    Write16(Write16(bytes, offset, value % 65536), offset + 2, (value \div 65536) % 65536)

\* the device position readNextCluster seeks to: FAT16 keeps it in a quint16,
\* FAT12 and FAT32 in a quint32, which no offset of these devices exceeds
readNextCluster_offset(d, cluster) ==
    IF d.v = "FAT12"
    THEN (d.reservedSectors * d.bytesPerSector) + cluster + (cluster \div 2)
    ELSE IF d.v = "FAT16"
    THEN ((d.reservedSectors * d.bytesPerSector) + (cluster * 2)) % 65536
    ELSE (d.reservedSectors * d.bytesPerSector) + (cluster * 4)
\* the device position writeNextCluster seeks to in FAT copy i (0-based),
\* a quint32 in every variant
writeNextCluster_offset(d, cluster, i) ==
    IF d.v = "FAT12"
    THEN (d.reservedSectors * d.bytesPerSector) + cluster + (cluster \div 2)
    ELSE (d.reservedSectors * d.bytesPerSector)
          + (cluster * (IF d.v = "FAT16" THEN 2 ELSE 4))
          + (i * d.sectorsPerFAT * d.bytesPerSector)

readNextCluster_dev(d, cluster) ==
    IF d.v = "FAT12"
    THEN LET word == Read16(d.bytes, readNextCluster_offset(d, cluster))
             value == IF cluster % 2 = 1 THEN word \div 16 ELSE word % 4096
         IN IF value >= 4088 THEN 65535 ELSE IF value = 4087 THEN 65535 ELSE value
    ELSE IF d.v = "FAT16"
    THEN LET nextCluster == Read16(d.bytes, readNextCluster_offset(d, cluster))
         IN IF nextCluster >= 65528 THEN 0 ELSE nextCluster
    ELSE LET nextCluster == Read28(d.bytes, readNextCluster_offset(d, cluster))
         IN IF nextCluster >= 268435448 THEN 0 ELSE nextCluster

\* a 12-bit write that stores the shifted value without merging in the bits of
\* the neighbouring entry
writeNextCluster_dev_unmerged(d, cluster, value) ==
    IF d.v = "FAT12"
    THEN [d EXCEPT !.bytes =
                Write16(d.bytes, writeNextCluster_offset(d, cluster, 0),
                    IF cluster % 2 = 1
                    THEN ((value % 4096) * 16) % 65536
                    ELSE value % 4096)]
    ELSE d

RECURSIVE writeNextCluster_copies(_, _, _, _)
writeNextCluster_copies(d, cluster, value, i) ==
    IF i >= d.numFATs THEN d.bytes
    ELSE LET bytes == writeNextCluster_copies(d, cluster, value, i + 1)
         IN IF d.v = "FAT16"
            THEN Write16(bytes, writeNextCluster_offset(d, cluster, i), value % 65536)
            ELSE Write32(bytes, writeNextCluster_offset(d, cluster, i), value % 268435456)
writeNextCluster_dev(d, cluster, value) ==
    IF d.v = "FAT12"
    THEN LET current == Read16(d.bytes, writeNextCluster_offset(d, cluster, 0))
         IN [d EXCEPT !.bytes =
                Write16(d.bytes, writeNextCluster_offset(d, cluster, 0),
                    IF cluster % 2 = 1
                    THEN (current % 16) + (((value % 4096) * 16) % 65536)
                    ELSE ((current \div 4096) * 4096) + (value % 4096))]
    ELSE [d EXCEPT !.bytes = writeNextCluster_copies(d, cluster, value, 0)]

\* getClusterChain: the number of clusters it appends to the chain from
\* startCluster on.  The loop ends at an end-of-chain or free entry, or when
\* the chain has maxClusters elements: once it comes back to a cluster it has
\* appended before (seen) it repeats the same links and ends only by that limit.
maxClusters(d) ==
    IF d.v = "FAT12" THEN 4080 ELSE IF d.v = "FAT16" THEN 65536 ELSE 268435440
RECURSIVE getClusterChain_size(_, _, _, _)
getClusterChain_size(d, currentCluster, size, seen) ==
    IF currentCluster >= 2
         /\ currentCluster < (IF d.v = "FAT12" THEN 4088
                              ELSE IF d.v = "FAT16" THEN 65528 ELSE 268435448)
         /\ size < maxClusters(d)
    THEN IF currentCluster \in seen THEN maxClusters(d)
         ELSE IF readNextCluster_dev(d, currentCluster) = 0 THEN size + 1
         ELSE getClusterChain_size(d, readNextCluster_dev(d, currentCluster), size + 1,
                                   seen \cup {currentCluster})
    ELSE size
getClusterChain_dev(d, startCluster) ==
    IF startCluster < 2 THEN 0 ELSE getClusterChain_size(d, startCluster, 0, {})

\* findFreeCluster: the number of FAT entries comes from the size of the FAT
totalClusters(d) ==
    IF d.v = "FAT12" THEN (d.sectorsPerFAT * d.bytesPerSector * 2) \div 3
    ELSE IF d.v = "FAT16" THEN (d.sectorsPerFAT * d.bytesPerSector) \div 2
    ELSE (d.sectorsPerFAT * d.bytesPerSector) \div 4
findFreeCluster_value(d, cluster) ==
    IF d.v = "FAT12" THEN readNextCluster_dev(d, cluster)
    ELSE IF d.v = "FAT16"
    THEN Read16(d.bytes, (d.reservedSectors * d.bytesPerSector) + (cluster * 2))
    ELSE Read28(d.bytes, (d.reservedSectors * d.bytesPerSector) + (cluster * 4))
RECURSIVE findFreeCluster_loop(_, _)
findFreeCluster_loop(d, cluster) ==
    IF ~(cluster < totalClusters(d)
           /\ cluster < (IF d.v = "FAT12" THEN 4080
                         ELSE IF d.v = "FAT16" THEN 65520 ELSE 268435440))
    THEN 0
    ELSE IF findFreeCluster_value(d, cluster) = 0 THEN cluster
    ELSE findFreeCluster_loop(d, cluster + 1)
findFreeCluster_dev(d) == findFreeCluster_loop(d, 2)

-----------------------------------------------------------------------------
(* The state machine                                                       *)

VARIABLES vol, nops, stamp, dev

vars == <<vol, nops, stamp, dev>>

\* a freshly formatted volume of variant v (FAT32: the root directory is
\* cluster 2, a one-cluster chain)
Formatted(v) ==
    [v |-> v,
     fat |-> [i \in 1..NumFATs |->
                [c \in Clusters |-> IF v = "FAT32" /\ c = readRootDirCluster
                                    THEN EndOfChain(v) ELSE 0]],
     disk |-> [k \in 1..DiskSlots(v) |-> EndSlot],
     map |-> <<>>,
     le |-> "None"]

\* names used as path components: "a", "d", "Longname1", "Longname2"
NameA == <<97>>
NameD == <<100>>
NameLong1 == <<76, 111, 110, 103, 110, 97, 109, 101, 49>>
NameLong2 == <<76, 111, 110, 103, 110, 97, 109, 101, 50>>
\* "LONGNA~1"
ShortLong2 == <<76, 79, 78, 71, 78, 65, 126, 49>>

Paths == {<<NameA>>, <<NameD>>, <<NameLong1>>, <<NameLong2>>, <<NameD, NameA>>, <<NameD, NameLong1>>}

\* file contents: empty, one block, one block more than a cluster holds
TestBlock == DataBlock(120)
Datas == {<<>>, <<TestBlock>>, [i \in 1..(ClusterSize + 1) |-> TestBlock]}

\* a volume prepared by another FAT implementation, as the test images are:
\* the root directory holds the file "Longname2" as an LFN entry followed by
\* the short entry LONGNA~1, one block of data in one cluster
Populated(v) ==
    LET f == Formatted(v)
        cluster == IF v = "FAT32" THEN 3 ELSE 2
        rootOffset == IF v = "FAT32" THEN calculateClusterOffset(v, readRootDirCluster)
                      ELSE calculateRootDirOffset
        d1 == WriteSlot(f.disk, rootOffset,
                        writeLFNEntry(NameLong2, 1, calculateLFNChecksum(ShortLong2), TRUE))
        d2 == WriteSlot(d1, rootOffset + 1,
                        SdeSlot(EncodeName11(ShortLong2), ENTRY_ATTRIBUTE_ARCHIVE, cluster, 1))
        d3 == WriteSlot(d2, calculateClusterOffset(v, cluster), TestBlock)
    IN [f EXCEPT !.fat = [i \in 1..NumFATs |-> [f.fat[i] EXCEPT ![cluster] = EndOfChain(v)]],
                 !.disk = d3]

\* a volume whose root directory holds one read-only file "A" of one block
PopulatedReadOnly(v) ==
    LET f == Formatted(v)
        cluster == IF v = "FAT32" THEN 3 ELSE 2
        rootOffset == IF v = "FAT32" THEN calculateClusterOffset(v, readRootDirCluster)
                      ELSE calculateRootDirOffset
        d1 == WriteSlot(f.disk, rootOffset,
                        SdeSlot(EncodeName11(ToUpper(NameA)),
                                ENTRY_ATTRIBUTE_ARCHIVE + ENTRY_ATTRIBUTE_READ_ONLY, cluster, 1))
        d2 == WriteSlot(d1, calculateClusterOffset(v, cluster), TestBlock)
    IN [f EXCEPT !.fat = [i \in 1..NumFATs |-> [f.fat[i] EXCEPT ![cluster] = EndOfChain(v)]],
                 !.disk = d2]

\* a formatted FAT32 volume whose FAT holds a free entry with one of the high
\* 4 bits of its 32-bit slot set (the bits FAT32 reserves)
FormattedReserved(v) ==
    [Formatted(v) EXCEPT !.fat = [i \in 1..NumFATs |->
        [Formatted(v).fat[i] EXCEPT ![readRootDirCluster + 1] = 268435456]]]

Images(v) ==
    {Formatted(v), Populated(v), PopulatedReadOnly(v)}
        \cup (IF v = "FAT32" THEN {FormattedReserved(v)} ELSE {})

Init ==
    /\ vol \in UNION {Images(v) : v \in Variants}
    /\ nops = 0
    /\ stamp = NoStamp
    /\ dev = NoDevice

WriteFile ==
    \E p \in Paths, b \in Datas :
        /\ nops < MaxOps
        /\ vol' = writeFile(vol, p, b).S
        /\ nops' = nops + 1
        /\ UNCHANGED <<stamp, dev>>

DeleteFile ==
    \E p \in Paths :
        /\ nops < MaxOps
        /\ vol' = deleteFile(vol, p).S
        /\ nops' = nops + 1
        /\ UNCHANGED <<stamp, dev>>

CreateDirectory ==
    \E p \in Paths :
        /\ nops < MaxOps
        /\ vol' = createDirectory(vol, p).S
        /\ nops' = nops + 1
        /\ UNCHANGED <<stamp, dev>>

DeleteDirectory ==
    \E p \in Paths, recursive \in BOOLEAN :
        /\ nops < MaxOps
        /\ vol' = deleteDirectory(vol, p, recursive).S
        /\ nops' = nops + 1
        /\ UNCHANGED <<stamp, dev>>

RenameFile ==
    \E p \in Paths, q \in Paths :
        /\ nops < MaxOps
        /\ vol' = renameFile(vol, p, q).S
        /\ nops' = nops + 1
        /\ UNCHANGED <<stamp, dev>>

MoveFile ==
    \E p \in Paths, q \in Paths :
        /\ nops < MaxOps
        /\ vol' = moveFile(vol, p, q).S
        /\ nops' = nops + 1
        /\ UNCHANGED <<stamp, dev>>

Next ==
    \/ WriteFile
    \/ DeleteFile
    \/ CreateDirectory
    \/ DeleteDirectory
    \/ RenameFile
    \/ MoveFile

Spec == Init /\ [][Next]_vars

-----------------------------------------------------------------------------
(* The specification of the creation time: one file written, overwritten     *)
(* and removed under a nondeterministic clock                                *)

ClockYears == {2026}
ClockMonths == {1, 2}
ClockDays == {1, 28, 31}
ClockTimes == {<<0, 0, 0>>, <<23, 59, 59>>}
\* the values QDateTime::currentDateTime() may return
Nows ==
    {dt \in {DateTime(y, m, d, t[1], t[2], t[3]) :
                y \in ClockYears, m \in ClockMonths, d \in ClockDays, t \in ClockTimes} :
        isValid(dt)}

InitTime ==
    /\ vol \in {Formatted(v) : v \in Variants}
    /\ nops = 0
    /\ stamp \in {NoStamp} \cup {Stamp(encodeFATDateTime(now)) : now \in Nows}
    /\ dev = NoDevice

\* writeFile on a path that does not exist yet
WriteNewFile ==
    \E now \in Nows :
        /\ nops < MaxOps
        /\ ~stamp.present
        /\ stamp' = writeFile_created(stamp, now)
        /\ nops' = nops + 1
        /\ UNCHANGED <<vol, dev>>

\* writeFile on the existing file
OverwriteFile ==
    \E now \in Nows :
        /\ nops < MaxOps
        /\ stamp.present
        /\ stamp' = writeFile_created(stamp, now)
        /\ nops' = nops + 1
        /\ UNCHANGED <<vol, dev>>

\* deleteFile: the entry is marked deleted
RemoveFile ==
    /\ nops < MaxOps
    /\ stamp.present
    /\ stamp' = NoStamp
    /\ nops' = nops + 1
    /\ UNCHANGED <<vol, dev>>

NextTime ==
    \/ WriteNewFile
    \/ OverwriteFile
    \/ RemoveFile

SpecTime == InitTime /\ [][NextTime]_vars

-----------------------------------------------------------------------------
(* The specification of the FAT region: entries written, clusters allocated  *)
(* and freed on formatted devices of several geometries                      *)

\* the first two FAT entries of a formatted device (media descriptor, filler)
FormattedFat(v) ==
    IF v = "FAT12" THEN (512 :> 248 @@ 513 :> 255 @@ 514 :> 255)
    ELSE IF v = "FAT16" THEN (512 :> 248 @@ 513 :> 255 @@ 514 :> 255 @@ 515 :> 255)
    ELSE (512 :> 248 @@ 513 :> 255 @@ 514 :> 255 @@ 515 :> 15
          @@ 516 :> 255 @@ 517 :> 255 @@ 518 :> 255 @@ 519 :> 15
          @@ 520 :> 255 @@ 521 :> 255 @@ 522 :> 255 @@ 523 :> 15)
\* formatted devices: 512-byte sectors, one reserved sector, two FAT copies
Devices ==
    {Device("FAT12", 512, 1, 1, 2, 2, FormattedFat("FAT12")),
     Device("FAT12", 512, 1, 9, 2, 2847, FormattedFat("FAT12")),
     Device("FAT16", 512, 1, 1, 2, 2, FormattedFat("FAT16")),
     Device("FAT16", 512, 1, 254, 2, 65000, FormattedFat("FAT16")),
     Device("FAT32", 512, 1, 1, 2, 3, FormattedFat("FAT32"))}
\* the cluster numbers and entry values the operations are tried with
LastCluster(d) == d.dataClusters + 1
SampleClusters(d) ==
    {c \in {2, 3, 4, 5, 32511, 32512, 40000, LastCluster(d) - 1, LastCluster(d)} :
        c >= 2 /\ c <= LastCluster(d)}
SampleValues(d) ==
    {0, 3, 4, LastCluster(d),
     IF d.v = "FAT12" THEN 4095 ELSE IF d.v = "FAT16" THEN 65535 ELSE 268435455}

InitFat ==
    /\ dev \in Devices
    /\ vol = Formatted(dev.v)
    /\ nops = 0
    /\ stamp = NoStamp

\* writeNextCluster(cluster, value), as allocateClusterChain links a chain
LinkCluster ==
    \E c \in SampleClusters(dev), value \in SampleValues(dev) :
        /\ nops < MaxOps
        /\ value # 0
        /\ dev' = writeNextCluster_dev(dev, c, value)
        /\ nops' = nops + 1
        /\ UNCHANGED <<vol, stamp>>

\* allocateClusterChain(1): the cluster findFreeCluster returns is marked
AllocateCluster ==
    /\ nops < MaxOps
    /\ findFreeCluster_dev(dev) # 0
    /\ dev' = writeNextCluster_dev(dev, findFreeCluster_dev(dev),
                  IF dev.v = "FAT12" THEN 4095 ELSE IF dev.v = "FAT16" THEN 65535
                  ELSE 268435455)
    /\ nops' = nops + 1
    /\ UNCHANGED <<vol, stamp>>

\* freeClusterChain on a chain of one cluster
FreeCluster ==
    \E c \in SampleClusters(dev) :
        /\ nops < MaxOps
        /\ dev' = writeNextCluster_dev(dev, c, 0)
        /\ nops' = nops + 1
        /\ UNCHANGED <<vol, stamp>>

NextFat ==
    \/ LinkCluster
    \/ AllocateCluster
    \/ FreeCluster

SpecFat == InitFat /\ [][NextFat]_vars

-----------------------------------------------------------------------------
(* The volume as any FAT reader sees it: directories, live entries, chains *)

RECURSIVE SeqOfRange(_, _)
SeqOfRange(a, b) == IF a > b THEN <<>> ELSE <<a>> \o SeqOfRange(a + 1, b)

\* the clusters linked from cluster c in the first FAT copy, without repetition
RECURSIVE FatChain(_, _, _)
FatChain(S, c, seen) ==
    IF c \notin Clusters \/ c \in seen THEN <<>>
    ELSE <<c>> \o FatChain(S, FatEntry(S.v, S.fat, c), seen \cup {c})

\* the chain from c is cycle-free, stays in the data area and ends in an
\* end-of-chain mark
ChainEndsInEOC(S, c) ==
    LET chain == FatChain(S, c, {})
    IN chain # <<>> /\ FatEntry(S.v, S.fat, chain[Len(chain)]) >= ChainLimit(S.v)

RECURSIVE ChainOffsets(_, _, _)
ChainOffsets(S, chain, i) ==
    IF i > Len(chain) THEN <<>>
    ELSE LET o == calculateClusterOffset(S.v, chain[i])
         IN SeqOfRange(o, o + ClusterSize - 1) \o ChainOffsets(S, chain, i + 1)

\* the slot positions of a directory up to its end-of-directory slot
RECURSIVE VisibleOffsets(_, _, _)
VisibleOffsets(S, offsets, i) ==
    IF i > Len(offsets) \/ SlotAt(S.disk, offsets[i]).k = "end" THEN <<>>
    ELSE <<offsets[i]>> \o VisibleOffsets(S, offsets, i + 1)

RootOffsets(S) ==
    IF S.v = "FAT32" THEN ChainOffsets(S, FatChain(S, readRootDirCluster, {}), 1)
    ELSE SeqOfRange(calculateRootDirOffset, calculateRootDirOffset + RootEntries - 1)

IsLiveSde(slot) == slot.k = "sde" /\ slot.name[1] # ENTRY_CURRENT_DIRECTORY
IsLiveDir(slot) == IsLiveSde(slot) /\ (slot.attr \div ENTRY_ATTRIBUTE_DIRECTORY) % 2 = 1

\* every directory reachable from the directory with the given slot positions,
\* each as the sequence of its visible slot positions
RECURSIVE DirsFrom(_, _, _)
DirsFrom(S, offsets, depth) ==
    LET vis == VisibleOffsets(S, offsets, 1)
        subs == {i \in 1..Len(vis) : IsLiveDir(SlotAt(S.disk, vis[i]))}
    IN {vis} \cup
       (IF depth = 0 THEN {}
        ELSE UNION {DirsFrom(S, ChainOffsets(S, FatChain(S, SlotAt(S.disk, vis[i]).clus, {}), 1),
                             depth - 1) : i \in subs})

AllDirs(S) == DirsFrom(S, RootOffsets(S), MaxCluster)

\* slot positions of the live short entries of the volume
LiveEntries(S) ==
    UNION {{d[i] : i \in {j \in 1..Len(d) : IsLiveSde(SlotAt(S.disk, d[j]))}} : d \in AllDirs(S)}

ChainSet(S, c) == {FatChain(S, c, {})[i] : i \in 1..Len(FatChain(S, c, {}))}

-----------------------------------------------------------------------------
(* Claims                                                                  *)

\* C1: on every variant, a write that succeeds is followed by a read of the
\* same path that returns the written bytes with error None (the parent
\* exists; long and mixed-case final names included).
C1_RoundTrip ==
    \A p \in Paths, b \in Datas :
        LET w == writeFile(vol, p, b)
        IN w.ok => readFile(w.S, p) = [data |-> b, error |-> "None"]

\* C2: after any sequence of operations no cluster is in the chains of two
\* live directory entries, and every live entry's chain is cycle-free and
\* ends in an end-of-chain mark.
C2_NoCrossLinks ==
    /\ \A e1, e2 \in LiveEntries(vol) :
          e1 # e2 => ChainSet(vol, SlotAt(vol.disk, e1).clus)
                     \cap ChainSet(vol, SlotAt(vol.disk, e2).clus) = {}
    /\ \A e \in LiveEntries(vol) :
          SlotAt(vol.disk, e).clus >= 2 => ChainEndsInEOC(vol, SlotAt(vol.disk, e).clus)

\* C3: after any completed operation, failed ones included, no live
\* directory entry has a cluster in its chain whose FAT entry is 0.
C3_NoFreeClusterReferenced ==
    \A e \in LiveEntries(vol) :
        \A c \in ChainSet(vol, SlotAt(vol.disk, e).clus) : FatEntry(vol.v, vol.fat, c) # 0

\* C4: for a path that does not exist yet, after a successful write the
\* delete_file of the path succeeds, the path no longer exists and the free
\* space is what it was before the write.
C4_DeleteRestore ==
    \A p \in Paths, b \in Datas :
        LET w == writeFile(vol, p, b)
            d == deleteFile(w.S, p)
        IN (~exists(vol, p) /\ w.ok) =>
              /\ d.ok
              /\ ~exists(d.S, p)
              /\ getFreeSpace(d.S) = getFreeSpace(vol)

\* C5: on every variant, after any mutating operation all FAT copies hold
\* the same value for every cluster.
C5_MirrorIdentity ==
    \A i, j \in 1..NumFATs : vol.fat[i] = vol.fat[j]

\* the path resolves to an existing directory
IsDirectoryAt(S, parts) ==
    LET r == findFileByPath(S, parts) IN r.error = "None" /\ r.info.isDirectory

\* final path components a child of a directory can have
ChildNames == {p[Len(p)] : p \in Paths}

\* C6: a write whose path resolves to an existing directory fails with
\* InvalidPath and leaves the directory's entry, its chain and its contents
\* (the whole directory region and FAT) unchanged.
C6_WriteOnDirectory ==
    \A p \in Paths, b \in Datas :
        IsDirectoryAt(vol, p) =>
            LET w == writeFile(vol, p, b)
            IN /\ ~w.ok
               /\ w.error = "InvalidPath"
               /\ w.S.disk = vol.disk
               /\ w.S.fat = vol.fat

\* C7: when a move of a directory succeeds, the destination is a directory
\* with the first cluster the source had, everything that was reachable
\* under the source is reachable under the destination with the same
\* content, and the source no longer exists.
C7_MoveDirectory ==
    \A p, q \in Paths :
        LET src == findFileByPath(vol, p)
            m == moveFile(vol, p, q)
            dst == findFileByPath(m.S, q)
        IN (IsDirectoryAt(vol, p) /\ m.ok) =>
              /\ dst.error = "None"
              /\ dst.info.isDirectory
              /\ dst.info.cluster = src.info.cluster
              /\ ~exists(m.S, p)
              /\ \A n \in ChildNames :
                    exists(vol, Append(p, n)) =>
                       /\ exists(m.S, Append(q, n))
                       /\ readFile(m.S, Append(q, n)) = readFile(vol, Append(p, n))

\* C8: when a move of an existing source to an absent destination reports
\* failure, either the source is still present with its content and the
\* destination absent, or the destination is present with the source's
\* content and the source absent; never both, never neither.
C8_MoveFailureAtomic ==
    \A p, q \in Paths :
        LET m == moveFile(vol, p, q)
            pre == readFile(vol, p)
        IN (exists(vol, p) /\ ~exists(vol, q) /\ ~m.ok) =>
              \/ /\ exists(m.S, p)
                 /\ ~exists(m.S, q)
                 /\ readFile(m.S, p).data = pre.data
              \/ /\ exists(m.S, q)
                 /\ ~exists(m.S, p)
                 /\ readFile(m.S, q).data = pre.data

\* C9: after any sequence of public operations, no two live short entries
\* of one directory have the same 11-byte short name.
C9_ShortNamesUnique ==
    \A d \in AllDirs(vol) :
        \A i, j \in 1..Len(d) :
            (i # j /\ IsLiveSde(SlotAt(vol.disk, d[i])) /\ IsLiveSde(SlotAt(vol.disk, d[j])))
               => SlotAt(vol.disk, d[i]).name # SlotAt(vol.disk, d[j]).name

\* the LFN entry at position i of directory d is followed, through LFN
\* entries only, by a live short entry whose name has the entry's checksum
LfnAttached(S, d, i) ==
    \E j \in (i + 1)..Len(d) :
        /\ SlotAt(S.disk, d[j]).k = "sde"
        /\ \A k \in (i + 1)..(j - 1) : SlotAt(S.disk, d[k]).k = "lfn"
        /\ SlotAt(S.disk, d[i]).sum = ChecksumOfName11(SlotAt(S.disk, d[j]).name)

\* C10: after any completed operation, every LFN entry that is not marked
\* deleted belongs to a contiguous chain immediately before a live short
\* entry, and its checksum is the checksum of that entry's 11-byte name.
C10_LfnChainsAttached ==
    \A d \in AllDirs(vol) :
        \A i \in 1..Len(d) :
            SlotAt(vol.disk, d[i]).k = "lfn" => LfnAttached(vol, d, i)

\* the subdirectories reachable from the directory with slot positions
\* offsets and first cluster clus (0 for the FAT12/16 root), each as the pair
\* of its first cluster and its parent's first cluster
RECURSIVE SubDirs(_, _, _, _)
SubDirs(S, offsets, clus, depth) ==
    LET vis == VisibleOffsets(S, offsets, 1)
        subs == {SlotAt(S.disk, vis[i]).clus :
                    i \in {j \in 1..Len(vis) : IsLiveDir(SlotAt(S.disk, vis[j]))}}
    IN {<<c, clus>> : c \in subs} \cup
       (IF depth = 0 THEN {}
        ELSE UNION {SubDirs(S, ChainOffsets(S, FatChain(S, c, {}), 1), c, depth - 1) : c \in subs})

\* the slot is the short entry with the given dot name and cluster
IsDotEntry(slot, name, cluster) ==
    slot.k = "sde" /\ slot.name = LeftJustified(name, 11) /\ slot.clus = cluster

\* C11: after any completed create_dir, rename or move, every directory other
\* than the root begins with a "." entry with the directory's own first
\* cluster and a ".." entry with the first cluster of its current parent (0
\* when the parent is the FAT12/16 root).
C11_DotEntries ==
    \A pair \in SubDirs(vol, RootOffsets(vol),
                        IF vol.v = "FAT32" THEN readRootDirCluster ELSE 0, MaxCluster) :
        /\ pair[1] \in Clusters
        /\ IsDotEntry(SlotAt(vol.disk, calculateClusterOffset(vol.v, pair[1])),
                      <<Dot>>, pair[1])
        /\ IsDotEntry(SlotAt(vol.disk, calculateClusterOffset(vol.v, pair[1]) + 1),
                      <<Dot, Dot>>, pair[2])

\* a live short entry that names a file
IsLiveFile(slot) ==
    /\ IsLiveSde(slot)
    /\ ~IsLiveDir(slot)
    /\ (slot.attr \div ENTRY_ATTRIBUTE_VOLUME_LABEL) % 2 = 0

\* the number of clusters a reader traverses from an entry's first cluster
ChainLength(S, slot) == IF slot.clus = 0 THEN 0 ELSE Len(FatChain(S, slot.clus, {}))

\* C12: after any completed operation, every live file entry with size s and
\* chain length n has n * cluster_size >= s > (n - 1) * cluster_size; a
\* zero-length file has first cluster 0, a non-empty one a first cluster >= 2.
C12_SizeMatchesChain ==
    \A e \in LiveEntries(vol) :
        IsLiveFile(SlotAt(vol.disk, e)) =>
            /\ ChainLength(vol, SlotAt(vol.disk, e)) * ClusterSize >= SlotAt(vol.disk, e).size
            /\ SlotAt(vol.disk, e).size > (ChainLength(vol, SlotAt(vol.disk, e)) - 1) * ClusterSize

\* every directory region a reader reaches from the directory with the given
\* slot positions, each as the sequence of all its slot positions (those
\* after its end-of-directory slot included)
RECURSIVE DirRegions(_, _, _)
DirRegions(S, offsets, depth) ==
    LET vis == VisibleOffsets(S, offsets, 1)
        subs == {i \in 1..Len(vis) : IsLiveDir(SlotAt(S.disk, vis[i]))}
    IN {offsets} \cup
       (IF depth = 0 THEN {}
        ELSE UNION {DirRegions(S, ChainOffsets(S, FatChain(S, SlotAt(S.disk, vis[i]).clus, {}), 1),
                               depth - 1) : i \in subs})

TopBits(fat) == [i \in DOMAIN fat |-> [c \in DOMAIN fat[i] |-> fat[i][c] \div 268435456]]

\* C14: on FAT32, every write of a FAT entry (allocation as end of chain,
\* linking to another cluster, freeing) leaves the high 4 bits of the 32-bit
\* FAT slot as they were before the write.
C14_TopBitsPreserved ==
    vol.v = "FAT32" =>
        \A c \in Clusters, value \in {0, EndOfChain(vol.v)} \cup Clusters :
            TopBits(writeNextCluster(vol.v, vol.fat, c, value)) = TopBits(vol.fat)

\* C15: when a rename within one directory succeeds, the old path no longer
\* exists, the new path exists and has the first cluster, the size and the
\* content the old path had; on every variant, long new names included.
C15_RenameSameDirectory ==
    \A p, q \in Paths :
        LET src == findFileByPath(vol, p)
            r == renameFile(vol, p, q)
            dst == findFileByPath(r.S, q)
        IN (ParentOf(p) = ParentOf(q) /\ r.ok) =>
              /\ ~exists(r.S, p)
              /\ dst.error = "None"
              /\ dst.info.cluster = src.info.cluster
              /\ dst.info.size = src.info.size
              /\ dst.info.isDirectory = src.info.isDirectory
              /\ (~src.info.isDirectory => readFile(r.S, q) = readFile(vol, p))

\* C16: a rename whose new path already exists in the same directory fails
\* with InvalidPath on every variant, and afterwards both paths exist with
\* their original content.
C16_RenameOntoExisting ==
    \A p, q \in Paths :
        LET r == renameFile(vol, p, q)
        IN (p # q /\ ParentOf(p) = ParentOf(q) /\ exists(vol, p) /\ exists(vol, q)) =>
              /\ ~r.ok
              /\ r.error = "InvalidPath"
              /\ findFileByPath(r.S, p) = findFileByPath(vol, p)
              /\ findFileByPath(r.S, q) = findFileByPath(vol, q)
              /\ readFile(r.S, p) = readFile(vol, p)
              /\ readFile(r.S, q) = readFile(vol, q)

\* C17: on every variant a rename between different parent directories
\* behaves as the move of the same paths: the same result, error and volume;
\* on success the entry is reachable at the new path and no longer present at
\* the old one.
C17_RenameAcrossDirectories ==
    \A p, q \in Paths :
        LET r == renameFile(vol, p, q)
            m == moveFile(vol, p, q)
        IN ParentOf(p) # ParentOf(q) =>
              /\ r.ok = m.ok
              /\ r.error = m.error
              /\ r.S.disk = m.S.disk
              /\ r.S.fat = m.S.fat
              /\ r.ok => (exists(r.S, q) /\ ~exists(r.S, p))

\* names of the directories built and of the files written beneath them
TreeDirs == {<<NameD>>, <<NameLong1>>}
TreeFiles == {NameA, NameLong1}

\* C18: after create_dir of a new directory d and a write beneath it, a
\* recursive delete_dir of d that succeeds leaves neither d nor the path
\* beneath it, and the free space is what it was before d was created.
C18_RecursiveDelete ==
    \A d \in TreeDirs, n \in TreeFiles, b \in Datas :
        LET c == createDirectory(vol, d)
            w == writeFile(c.S, Append(d, n), b)
            del == deleteDirectory(w.S, d, TRUE)
        IN (~exists(vol, d) /\ c.ok /\ w.ok /\ del.ok) =>
              /\ ~exists(del.S, d)
              /\ ~exists(del.S, Append(d, n))
              /\ getFreeSpace(del.S) = getFreeSpace(vol)

\* C19: deleteDirectory(d, recursive = FALSE) on a directory that lists at
\* least one live entry fails with InvalidPath on every variant and leaves
\* the directory area and the FAT as they were.
NonEmptyDirectory(S, parts) ==
    /\ findFileByPath(S, parts).error = "None"
    /\ findFileByPath(S, parts).info.isDirectory
    /\ listDirectory(S, findFileByPath(S, parts).info.cluster) # <<>>
C19_NonRecursiveNonEmpty ==
    \A d \in Paths :
        NonEmptyDirectory(vol, d) =>
            /\ ~deleteDirectory(vol, d, FALSE).ok
            /\ deleteDirectory(vol, d, FALSE).error = "InvalidPath"
            /\ deleteDirectory(vol, d, FALSE).S.disk = vol.disk
            /\ deleteDirectory(vol, d, FALSE).S.fat = vol.fat

\* C20: when createDirectory(p) succeeds, for short and for long final names,
\* p exists, its file information reports a directory and listing p yields
\* no entries.
C20_CreateDirectoryVisible ==
    \A p \in Paths :
        createDirectory(vol, p).ok =>
            /\ exists(createDirectory(vol, p).S, p)
            /\ findFileByPath(createDirectory(vol, p).S, p).info.isDirectory
            /\ listDirectoryPath(createDirectory(vol, p).S, p) = <<>>

\* C21: createDirectory(path) fails with InvalidPath when the path is already
\* occupied (it resolves, or a file was just written under it), and with
\* DirectoryNotFound when the parent is missing or is not a directory; in
\* both cases the FAT and the directory data are left as they were.
CreateDirectoryRejected(S, parts, error) ==
    /\ ~createDirectory(S, parts).ok
    /\ createDirectory(S, parts).error = error
    /\ createDirectory(S, parts).S.fat = S.fat
    /\ createDirectory(S, parts).S.disk = S.disk
IsDirectoryPath(S, parts) ==
    parts = <<>> \/ (findFileByPath(S, parts).error = "None"
                       /\ findFileByPath(S, parts).info.isDirectory)
C21_CreateDirectoryErrors ==
    \A p \in Paths, b \in Datas :
        /\ exists(vol, p) => CreateDirectoryRejected(vol, p, "InvalidPath")
        /\ writeFile(vol, p, b).ok
              => CreateDirectoryRejected(writeFile(vol, p, b).S, p, "InvalidPath")
        /\ (~exists(vol, p) /\ ~IsDirectoryPath(vol, ParentOf(p)))
              => CreateDirectoryRejected(vol, p, "DirectoryNotFound")

\* C22: after writeFile(p, b) or createDirectory(p) succeeds with final
\* component n, the listing of p's parent directory holds exactly one entry
\* whose long name is n, letter case included.
ListParent(S, parts) ==
    IF ParentOf(parts) = <<>> THEN listRootDirectory(S)
    ELSE listDirectoryPath(S, ParentOf(parts))
EntriesNamed(files, n) == {i \in DOMAIN files : files[i].longName = n}
C22_ListedUnderLongName ==
    \A p \in Paths, b \in Datas :
        /\ writeFile(vol, p, b).ok
              => Cardinality(EntriesNamed(ListParent(writeFile(vol, p, b).S, p), LastOf(p))) = 1
        /\ createDirectory(vol, p).ok
              => Cardinality(EntriesNamed(ListParent(createDirectory(vol, p).S, p), LastOf(p))) = 1

\* C23: writing a new file whose base name is longer than 8 characters leaves
\* in the parent directory an LFN entry directly followed by a short entry
\* named with the first 6 characters plus ~N, where N is the least of 1..999
\* that no short entry of the directory used before the write.
ShortNamesIn(S, parts) ==
    {SlotAt(S.disk, scanParent(S, ParentOf(parts)).offsets[i]).name :
        i \in {j \in DOMAIN scanParent(S, ParentOf(parts)).offsets :
                  SlotAt(S.disk, scanParent(S, ParentOf(parts)).offsets[j]).k = "sde"}}
TailName(n, N) == LeftJustified(Left(ToUpper(n), 6) \o <<Tilde>> \o DecStr(N), 11)
FirstFreeTail(S, parts) ==
    CHOOSE N \in 1..999 :
        /\ TailName(LastOf(parts), N) \notin ShortNamesIn(S, parts)
        /\ \A M \in 1..(N - 1) : TailName(LastOf(parts), M) \in ShortNamesIn(S, parts)
HasLfnThenShort(S, parts, name11) ==
    \E i \in DOMAIN scanParent(S, ParentOf(parts)).offsets :
        /\ i > 1
        /\ SlotAt(S.disk, scanParent(S, ParentOf(parts)).offsets[i]).k = "sde"
        /\ SlotAt(S.disk, scanParent(S, ParentOf(parts)).offsets[i]).name = name11
        /\ SlotAt(S.disk, scanParent(S, ParentOf(parts)).offsets[i - 1]).k = "lfn"
        /\ SlotAt(S.disk, scanParent(S, ParentOf(parts)).offsets[i - 1]).attr
               = ENTRY_ATTRIBUTE_LONG_FILE_NAME
C23_LongNameGetsNumericTail ==
    \A p \in Paths, b \in Datas :
        (Len(LastOf(p)) > 8 /\ ~exists(vol, p) /\ writeFile(vol, p, b).ok)
            => HasLfnThenShort(writeFile(vol, p, b).S, p,
                               TailName(LastOf(p), FirstFreeTail(vol, p)))

\* C24: every operation given a path with a component "." or ".." is
\* rejected with an error, and writeFile and createDirectory on such a path
\* write no directory entry and allocate no cluster.
DotPaths ==
    {<<<<Dot>>>>, <<<<Dot, Dot>>>>, <<NameD, <<Dot>>>>, <<NameD, <<Dot, Dot>>>>,
     <<<<Dot>>, NameA>>, <<NameD, <<Dot, Dot>>, NameA>>}
C24_DotComponentsRejected ==
    \A p \in DotPaths, b \in Datas :
        /\ ~writeFile(vol, p, b).ok
        /\ writeFile(vol, p, b).error # "None"
        /\ writeFile(vol, p, b).S.disk = vol.disk
        /\ writeFile(vol, p, b).S.fat = vol.fat
        /\ ~createDirectory(vol, p).ok
        /\ createDirectory(vol, p).error # "None"
        /\ createDirectory(vol, p).S.disk = vol.disk
        /\ createDirectory(vol, p).S.fat = vol.fat
        /\ readFile(vol, p).error # "None"
        /\ ~deleteFile(vol, p).ok
        /\ ~deleteDirectory(vol, p, FALSE).ok

\* C25: findFileByPath reports DirectoryNotFound when some proper prefix of
\* the path does not resolve to a directory, and FileNotFound when every
\* proper prefix resolves to a directory and only the last component is
\* missing.
ResolvePaths ==
    Paths \cup {<<NameA, NameA>>, <<NameA, NameD>>, <<NameLong1, NameA>>,
                <<NameD, NameD, NameA>>, <<NameD, NameA, NameA>>}
PrefixesAreDirectories(S, parts) ==
    \A i \in 1..(Len(parts) - 1) : IsDirectoryPath(S, SubSeq(parts, 1, i))
C25_ResolutionErrors ==
    \A p \in ResolvePaths :
        /\ ~PrefixesAreDirectories(vol, p)
              => findFileByPath(vol, p).error = "DirectoryNotFound"
        /\ (PrefixesAreDirectories(vol, p) /\ findFileByPath(vol, p).error # "None")
              => findFileByPath(vol, p).error = "FileNotFound"
\* a file /a used as a non-terminal component, a directory /d without /d/a and
\* a directory /d/a without /d/a/a
C25_Witness ==
    /\ nops > 0
    /\ findFileByPath(vol, <<NameA>>).error = "None"
    /\ ~findFileByPath(vol, <<NameA>>).info.isDirectory
    /\ findFileByPath(vol, <<NameA, NameA>>).error = "DirectoryNotFound"
    /\ exists(vol, <<NameD>>) /\ IsDirectoryPath(vol, <<NameD>>)
    /\ findFileByPath(vol, <<NameD, NameA>>).error = "FileNotFound"
    /\ findFileByPath(vol, <<NameD, NameD, NameA>>).error = "DirectoryNotFound"

\* C26: overwriting the existing file leaves the creation time reported for
\* it (parseDirectoryEntry's info.created) equal to the one reported before.
C26_CreationTimePreserved ==
    \A now \in Nows :
        stamp.present
            => parseDirectoryEntry_created(writeFile_created(stamp, now))
                 = parseDirectoryEntry_created(stamp)

\* C27: after every operation the cached last error (m_lastError) equals the
\* error code the operation reported, None after a success included.
LastErrorMatches(r) == r.S.le = r.error
C27_LastErrorMatches ==
    \A p \in Paths :
        /\ \A b \in Datas : LastErrorMatches(writeFile(vol, p, b))
        /\ LastErrorMatches(deleteFile(vol, p))
        /\ LastErrorMatches(createDirectory(vol, p))
        /\ \A recursive \in BOOLEAN : LastErrorMatches(deleteDirectory(vol, p, recursive))
        /\ \A q \in Paths : LastErrorMatches(renameFile(vol, p, q))
        /\ \A q \in Paths : LastErrorMatches(moveFile(vol, p, q))

\* C28: when allocateClusterChain(n) cannot obtain n free clusters it
\* returns the empty chain and every FAT entry holds the value it held
\* before the call.
C28_AllocationRollsBack ==
    \A n \in 1..MaxCluster :
        allocateClusterChain(vol.v, vol.fat, n).chain = <<>>
            => allocateClusterChain(vol.v, vol.fat, n).fat = vol.fat

\* C29: at every point of writeFile(p, b) between two device writes, on a
\* volume that was consistent before the call, no cluster is in the chains
\* of two live directory entries and no live directory entry has a cluster
\* in its chain whose FAT entry is free.
NoSharedCluster(S) ==
    \A e1, e2 \in LiveEntries(S) :
        e1 # e2 => ChainSet(S, SlotAt(S.disk, e1).clus)
                   \cap ChainSet(S, SlotAt(S.disk, e2).clus) = {}
NoFreeReferenced(S) ==
    \A e \in LiveEntries(S) :
        \A c \in ChainSet(S, SlotAt(S.disk, e).clus) : FatEntry(S.v, S.fat, c) # 0
C29_WriteCrashConsistent ==
    (NoSharedCluster(vol) /\ NoFreeReferenced(vol))
        => \A p \in Paths, b \in Datas :
               \A T \in writeFile_points(vol, p, b) :
                   NoSharedCluster(T) /\ NoFreeReferenced(T)

\* C30: writeFile or createDirectory of a new name into a cluster-chained
\* directory (a subdirectory, or the FAT32 root) none of whose slots is free
\* succeeds when enough free clusters exist for the data and for one more
\* directory cluster.
ExtendPaths == Paths \cup {<<NameD, NameD>>, <<NameD, NameLong2>>}
ChainedDirOffsets(S, parentParts) ==
    IF parentParts = <<>> THEN RootOffsets(S)
    ELSE ChainOffsets(S, FatChain(S, findFileByPath(S, parentParts).info.cluster, {}), 1)
FullChainedDir(S, parentParts) ==
    /\ IF parentParts = <<>> THEN S.v = "FAT32"
       ELSE findFileByPath(S, parentParts).error = "None"
            /\ findFileByPath(S, parentParts).info.isDirectory
            /\ findFileByPath(S, parentParts).info.cluster >= 2
    /\ ChainedDirOffsets(S, parentParts) # <<>>
    /\ \A i \in DOMAIN ChainedDirOffsets(S, parentParts) :
          SlotAt(S.disk, ChainedDirOffsets(S, parentParts)[i]).k \in {"sde", "lfn"}
FreeClusterCount(S) == Cardinality({c \in Clusters : FatEntry(S.v, S.fat, c) = 0})
C30_DirectoryExtended ==
    \A p \in ExtendPaths :
        (FullChainedDir(vol, ParentOf(p)) /\ ~exists(vol, p)
           /\ NoSharedCluster(vol) /\ NoFreeReferenced(vol))
            => /\ \A b \in Datas :
                    FreeClusterCount(vol) >= 1 + ((Len(b) + ClusterSize - 1) \div ClusterSize)
                        => writeFile(vol, p, b).ok
               /\ FreeClusterCount(vol) >= 2 => createDirectory(vol, p).ok

-----------------------------------------------------------------------------
(* C31: every cluster number findFreeCluster returns, and so every cluster   *)
(* allocateClusterChain places in a chain, is at least 2 and less than 2     *)
(* plus the number of clusters of the data region                            *)
C31_FreeClusterInDataRegion ==
    findFreeCluster_dev(dev) # 0 =>
        /\ findFreeCluster_dev(dev) >= 2
        /\ findFreeCluster_dev(dev) < 2 + dev.dataClusters

-----------------------------------------------------------------------------
(* C39: on FAT12, writeNextCluster(n, value) changes only the 12 bits of the *)
(* entry of n: every byte outside the two it is packed in is unchanged, the  *)
(* entries of n - 1 and n + 1 read back as before, and the entry of n reads  *)
(* back as the value written, end of chain as end of chain                   *)
EntryAsRead12(value) == IF value % 4096 >= 4088 THEN 65535 ELSE value % 4096
OnlyEntryWritten12(d, n, value) ==
    LET w == writeNextCluster_dev(d, n, value)
        offset == writeNextCluster_offset(d, n, 0)
    IN /\ \A o \in (DOMAIN d.bytes \cup DOMAIN w.bytes) \ {offset, offset + 1} :
              ByteAt(w.bytes, o) = ByteAt(d.bytes, o)
       /\ readNextCluster_dev(w, n - 1) = readNextCluster_dev(d, n - 1)
       /\ readNextCluster_dev(w, n + 1) = readNextCluster_dev(d, n + 1)
       /\ readNextCluster_dev(w, n) = EntryAsRead12(value)
C39_Fat12EntryIsolated ==
    dev.v = "FAT12" =>
        \A n \in SampleClusters(dev), value \in SampleValues(dev) :
            OnlyEntryWritten12(dev, n, value)
\* entries 2, 3 and 4 all hold a value: each write had a neighbour to preserve
C39_Witness ==
    /\ dev.v = "FAT12"
    /\ nops = 3
    /\ readNextCluster_dev(dev, 2) = 3
    /\ readNextCluster_dev(dev, 3) = 4
    /\ readNextCluster_dev(dev, 4) = 65535

-----------------------------------------------------------------------------
(* C40: on FAT16, for every cluster c from 2 to the last cluster of the      *)
(* volume, readNextCluster(c) reads the entry at reservedSectors *           *)
(* bytesPerSector + 2 * c, the offset writeNextCluster(c, value) writes, so  *)
(* a cluster number written as the entry of c is read back from it           *)
C40_Fat16ReadsWhereItWrites ==
    dev.v = "FAT16" =>
        \A c \in SampleClusters(dev) :
            /\ readNextCluster_offset(dev, c)
                   = (dev.reservedSectors * dev.bytesPerSector) + (2 * c)
            /\ readNextCluster_offset(dev, c) = writeNextCluster_offset(dev, c, 0)
            /\ readNextCluster_dev(writeNextCluster_dev(dev, c, 3), c) = 3

-----------------------------------------------------------------------------
(* C32: writing a file that has no entry yet changes only directory slots    *)
(* that were free (first byte 0x00 or 0xE5) before the call or held an LFN   *)
(* entry of no file, that are consecutive, no more than the LFN entries plus *)
(* the short entry, and that lie inside the parent directory's own region    *)
SeqRange(s) == {s[i] : i \in 1..Len(s)}
ParentRegion(S, parts) ==
    IF ParentOf(parts) = <<>> THEN SeqRange(RootOffsets(S))
    ELSE SeqRange(ChainOffsets(S,
             FatChain(S, findFileByPath(S, ParentOf(parts)).info.cluster, {}), 1))
\* an LFN slot left behind by a deleted short entry: it belongs to no file
OrphanLfn(S, o) ==
    /\ SlotAt(S.disk, o).k = "lfn"
    /\ SlotFirstByte(SlotAt(S.disk, o + 1)) \in {ENTRY_END_OF_DIRECTORY, ENTRY_DELETED}
SlotsChanged(S, T) == {o \in 0..(Len(S.disk) - 1) : T.disk[o + 1] # S.disk[o + 1]}
InsertsIntoFreeSlots(S, parts, T) ==
    /\ \A o \in SlotsChanged(S, T) :
          /\ \/ SlotFirstByte(SlotAt(S.disk, o)) \in {ENTRY_END_OF_DIRECTORY, ENTRY_DELETED}
             \/ OrphanLfn(S, o)
          /\ o \in ParentRegion(S, parts)
    /\ \A o \in SlotsChanged(S, T), q \in SlotsChanged(S, T) :
          \A m \in o..q : m \in SlotsChanged(S, T)
    /\ Cardinality(SlotsChanged(S, T))
           <= calculateLFNEntriesNeeded(LastOf(parts)) + 1
C32_InsertIntoFreeSlots ==
    \A p \in Paths :
        (~exists(vol, p) /\ writeFile(vol, p, <<>>).ok)
            => InsertsIntoFreeSlots(vol, p, writeFile(vol, p, <<>>).S)

-----------------------------------------------------------------------------
(* C33: after deleteFile(p) succeeds, exists(p) is false, and it is still    *)
(* false after a file is written at another path q                           *)
StaysDeleted(S, p) ==
    /\ ~exists(S, p)
    /\ \A q \in Paths \ {p} : ~exists(writeFile(S, q, <<>>).S, p)
C33_DeletedStaysAbsent ==
    \A p \in Paths :
        deleteFile(vol, p).ok => StaysDeleted(deleteFile(vol, p).S, p)

-----------------------------------------------------------------------------
(* C34: exists, getFileInfo and readFile give the same results on the        *)
(* handle that performed the writes and on a handle opened afterwards on the *)
(* same image, whose long-to-short name map is empty                         *)
FreshHandle(S) == [S EXCEPT !.map = <<>>, !.le = "None"]
C34_FreshHandleAgrees ==
    \A p \in Paths :
        /\ exists(FreshHandle(vol), p) = exists(vol, p)
        /\ findFileByPath(FreshHandle(vol), p) = findFileByPath(vol, p)
        /\ readFile(FreshHandle(vol), p) = readFile(vol, p)

-----------------------------------------------------------------------------
(* C35: moveFile(src, dst) with src a directory and dst inside the subtree   *)
(* of src fails and leaves the directory entries and the FAT unchanged       *)
IsProperPrefix(s, t) == Len(s) < Len(t) /\ SubSeq(t, 1, Len(s)) = s
C35_MoveIntoOwnSubtreeRejected ==
    \A src \in Paths, dst \in Paths :
        (IsDirectoryPath(vol, src) /\ IsProperPrefix(src, dst))
            => /\ ~moveFile(vol, src, dst).ok
               /\ moveFile(vol, src, dst).S.disk = vol.disk
               /\ moveFile(vol, src, dst).S.fat = vol.fat

-----------------------------------------------------------------------------
(* C36: an entry of the root listing is reported with a long name different  *)
(* from its short name only if its short entry is directly preceded by an    *)
(* LFN entry whose checksum is that of the short entry's 11 name bytes       *)
BackedByLfn(S, e) ==
    \E i \in 2..Len(RootOffsets(S)) :
        /\ SlotAt(S.disk, RootOffsets(S)[i]).k = "sde"
        /\ Trimmed(DecodeName11(SlotAt(S.disk, RootOffsets(S)[i]).name)) = e.name
        /\ SlotAt(S.disk, RootOffsets(S)[i - 1]).k = "lfn"
        /\ SlotAt(S.disk, RootOffsets(S)[i - 1]).sum
               = ChecksumOfName11(SlotAt(S.disk, RootOffsets(S)[i]).name)
C36_MismatchedLfnDiscarded ==
    \A i \in 1..Len(listRootDirectory(vol)) :
        listRootDirectory(vol)[i].longName # listRootDirectory(vol)[i].name
            => BackedByLfn(vol, listRootDirectory(vol)[i])

-----------------------------------------------------------------------------
(* C37: a slot is treated as an LFN entry only when the low four bits of its *)
(* attribute byte are all set; a live short entry of the root directory with *)
(* some but not all of them set is listed and found by its name              *)
ListedAndFound(S, name) ==
    /\ \E i \in 1..Len(listRootDirectory(S)) : listRootDirectory(S)[i].name = name
    /\ exists(S, <<name>>)
C37_LfnOnlyWhenAllLowBits ==
    \A i \in 1..Len(RootOffsets(vol)) :
        LET entry == SlotAt(vol.disk, RootOffsets(vol)[i])
        IN /\ isLongFileNameEntry(entry) => entry.attr % 16 = ENTRY_ATTRIBUTE_LONG_FILE_NAME
           /\ (entry.k = "sde" /\ entry.attr % 16 \notin {0, ENTRY_ATTRIBUTE_LONG_FILE_NAME}
                 /\ \A j \in 1..(i - 1) : SlotAt(vol.disk, RootOffsets(vol)[j]).k # "end")
                 => ListedAndFound(vol, Trimmed(DecodeName11(entry.name)))

-----------------------------------------------------------------------------
(* C38: getClusterChain from any start cluster follows at most as many links *)
(* as the volume has clusters, plus one, whatever the FAT holds              *)
C38_ChainFollowingBounded ==
    \A c \in SampleClusters(dev) :
        getClusterChain_dev(dev, c) <= dev.dataClusters + 1

====
